---- MODULE Spec2Model ----
(***************************************************************************)
(* Humanoid rig inspection and rigging commands of the Blender MCP add-on  *)
(* (src/addon.py) and of its library copy                                  *)
(* (src/src/blender_mcp/rigging/humanoid.py).                              *)
(*                                                                         *)
(* Names (object names, bone names, vertex-group names) are sequences of   *)
(* one-character strings, so that lower-casing, substring tests, prefix    *)
(* tests, character removal and splitting are computed as Python computes  *)
(* them.  None and the empty string are both the empty sequence: the code  *)
(* only ever tests such values for truthiness.                             *)
(*                                                                         *)
(* The scene is the sequence `objects` (scene iteration order).  A bone is *)
(* a record [name, parent] where parent is the index of the parent bone in *)
(* the armature's bone list (0 for a root).                                *)
(***************************************************************************)
EXTENDS Integers, Sequences, FiniteSets, TLC

VARIABLES
    objects,    \* bpy.context.scene.objects / bpy.data.objects, in scene order
    active,     \* bpy.context.view_layer.objects.active (a name, or None)
    selected,   \* names of the selected objects
    mode,       \* "OBJECT", "EDIT" or "WEIGHT_PAINT"
    last,       \* the last call made: [cmd, args, result, again], where again
                \* says that the call before it was the same call
    conn,       \* the client connections of the socket server, by client
    timers,     \* the functions registered with bpy.app.timers, oldest first
    executing   \* the calls of execute_command in progress

vars == <<objects, active, selected, mode, last, conn, timers, executing>>

\* no socket server is running
ServerIdle == conn = <<>> /\ timers = <<>> /\ executing = {}

-----------------------------------------------------------------------------
(* Python values *)

None == <<>>

Ret(v) == [raised |-> FALSE, value |-> v]

Raise(e) == [raised |-> TRUE, exc |-> e]

SetMax(S) == CHOOSE x \in S : \A y \in S : y <= x

\* a sequence given as a function, evaluated once into a tuple
Tuple(f) == f \o <<>>

Indices(s) == Tuple([i \in 1..Len(s) |-> i])

-----------------------------------------------------------------------------
(* str methods *)

UpperChars == <<"A","B","C","D","E","F","G","H","I","J","K","L","M",
                "N","O","P","Q","R","S","T","U","V","W","X","Y","Z">>

LowerChars == <<"a","b","c","d","e","f","g","h","i","j","k","l","m",
                "n","o","p","q","r","s","t","u","v","w","x","y","z">>

\* the lower-case letter of each upper-case letter
LowerOf ==
    [c \in {UpperChars[i] : i \in DOMAIN UpperChars} |->
        LowerChars[CHOOSE i \in DOMAIN UpperChars : UpperChars[i] = c]]

LowerChar(c) == IF c \in DOMAIN LowerOf THEN LowerOf[c] ELSE c

\* s.lower()
Lower(s) == Tuple([i \in 1..Len(s) |-> LowerChar(s[i])])

\* s.replace(ch, "") for a one-character ch
Remove(s, ch) == SelectSeq(s, LAMBDA c : c # ch)

\* s.split(ch)[-1]
SplitLast(s, ch) ==
    LET at == {i \in 1..Len(s) : s[i] = ch}
    IN  IF at = {} THEN s ELSE SubSeq(s, SetMax(at) + 1, Len(s))

\* sub in s
Contains(sub, s) ==
    \E i \in 1..(Len(s) - Len(sub) + 1) : SubSeq(s, i, i + Len(sub) - 1) = sub

\* s.startswith(pre)
StartsWith(s, pre) == Len(pre) <= Len(s) /\ SubSeq(s, 1, Len(pre)) = pre

-----------------------------------------------------------------------------
(* dict, as the sequence of its <<key, value>> items in insertion order *)

DictHas(d, k) == \E i \in 1..Len(d) : d[i][1] = k

\* d.get(k), with None for a missing key
DictGet(d, k) ==
    IF DictHas(d, k) THEN d[CHOOSE i \in 1..Len(d) : d[i][1] = k][2] ELSE None

\* d[k] = v : an existing key keeps its position
DictSet(d, k, v) ==
    IF DictHas(d, k)
    THEN [i \in 1..Len(d) |-> IF d[i][1] = k THEN <<k, v>> ELSE d[i]]
    ELSE Append(d, <<k, v>>)

DictKeys(d) == {d[i][1] : i \in 1..Len(d)}

-----------------------------------------------------------------------------
(* Name literals *)

MIXAMORIG == <<"m","i","x","a","m","o","r","i","g",":">>

THUMB == <<"t","h","u","m","b">>

INDEX == <<"i","n","d","e","x">>

MIDDLE == <<"m","i","d","d","l","e">>

RING == <<"r","i","n","g">>

PINKY == <<"p","i","n","k","y">>

\* the list ["thumb", "index", "middle", "ring", "pinky"]
FINGERS == <<THUMB, INDEX, MIDDLE, RING, PINKY>>

KEY_HIPS == <<"h","i","p","s">>

KEY_HEAD == <<"h","e","a","d">>

KEY_LEFTHAND == <<"l","e","f","t","h","a","n","d">>

KEY_RIGHTHAND == <<"r","i","g","h","t","h","a","n","d">>

RIG_SUFFIX == <<"_","R","i","g">>

-----------------------------------------------------------------------------
(* Host (bpy) primitives the commands read *)

\* bpy.data.objects.get(name): index of the object of that name, 0 for None
Get(objs, name) ==
    IF \E i \in 1..Len(objs) : objs[i].name = name
    THEN CHOOSE i \in 1..Len(objs) : objs[i].name = name
    ELSE 0

\* bones.get(name): index of the bone of that name, 0 for None
BoneGet(bones, name) ==
    IF \E i \in 1..Len(bones) : bones[i].name = name
    THEN CHOOSE i \in 1..Len(bones) : bones[i].name = name
    ELSE 0

\* bone.children: the direct children, in bone order
Children(bones, i) == SelectSeq(Indices(bones), LAMBDA j : bones[j].parent = i)

\* bone.parent_index(ancestor): number of parent links from j up to i, 0 if none
RECURSIVE ParentIndex(_, _, _)
ParentIndex(bones, j, i) ==
    IF bones[j].parent = 0 THEN 0
    ELSE IF bones[j].parent = i THEN 1
    ELSE LET d == ParentIndex(bones, bones[j].parent, i)
         IN  IF d = 0 THEN 0 ELSE d + 1

\* the bones at distance d, d + 1, ... below i; distances have no gaps
RECURSIVE ByDistance(_, _, _)
ByDistance(bones, dist, d) ==
    LET at == SelectSeq(Indices(bones), LAMBDA j : dist[j] = d)
    IN  IF at = <<>> THEN <<>> ELSE at \o ByDistance(bones, dist, d + 1)

\* bone.children_recursive: all descendants, sorted (stably) by distance to i
ChildrenRecursive(bones, i) ==
    ByDistance(bones, Tuple([j \in 1..Len(bones) |-> ParentIndex(bones, j, i)]), 1)

-----------------------------------------------------------------------------
(* NormalizedHumanoid *)

\* NormalizedHumanoid.__init__
NewNormalizedHumanoid ==
    [rig_type |-> "unknown",
     armature_name |-> None,
     mesh_name |-> None,
     has_armature_modifier |-> FALSE,
     vertex_count |-> 0,
     bones |-> [hips |-> None, head |-> None, hand_l |-> None, hand_r |-> None],
     bone_chains |-> [spine |-> <<>>, arm_l |-> <<>>, arm_r |-> <<>>,
                      leg_l |-> <<>>, leg_r |-> <<>>],
     fingers_l |-> <<>>,
     fingers_r |-> <<>>]

\* NormalizedHumanoid.to_dict
ToDict(norm) ==
    [rig_type |-> norm.rig_type,
     armature_name |-> norm.armature_name,
     mesh_name |-> norm.mesh_name,
     mesh_info |-> [vertex_count |-> norm.vertex_count,
                    has_armature_modifier |-> norm.has_armature_modifier],
     structure |-> [bones |-> norm.bones, chains |-> norm.bone_chains],
     hands |-> [left |-> [hand_bone |-> norm.bones.hand_l,
                          fingers |-> norm.fingers_l],
                right |-> [hand_bone |-> norm.bones.hand_r,
                           fingers |-> norm.fingers_r]]]

-----------------------------------------------------------------------------
(* find_best_humanoid_candidate *)

\* first loop: the armature with the most bones (max_bones starts at 0)
RECURSIVE ArmatureScan(_, _, _, _)
ArmatureScan(objs, i, max_bones, armature_obj) ==
    IF i > Len(objs) THEN armature_obj
    ELSE IF objs[i].type = "ARMATURE" /\ Len(objs[i].bones) > max_bones
         THEN ArmatureScan(objs, i + 1, Len(objs[i].bones), i)
         ELSE ArmatureScan(objs, i + 1, max_bones, armature_obj)

\* the inner loop over obj.modifiers
UsesArmature(objs, i, armature_obj) ==
    \E k \in 1..Len(objs[i].modifiers) :
        /\ objs[i].modifiers[k].type = "ARMATURE"
        /\ objs[i].modifiers[k].object = objs[armature_obj].name

\* second loop: the mesh, with its two break statements
RECURSIVE MeshScan(_, _, _, _, _)
MeshScan(objs, i, armature_obj, max_verts, mesh_obj) ==
    IF i > Len(objs) THEN mesh_obj
    ELSE IF objs[i].type # "MESH"
         THEN MeshScan(objs, i + 1, armature_obj, max_verts, mesh_obj)
    ELSE LET found == IF armature_obj # 0 /\ UsesArmature(objs, i, armature_obj)
                      THEN i ELSE mesh_obj
         IN  IF armature_obj # 0 /\ found # 0 THEN found
             ELSE IF objs[i].verts > max_verts
                  THEN MeshScan(objs, i + 1, armature_obj, objs[i].verts, i)
                  ELSE MeshScan(objs, i + 1, armature_obj, max_verts, found)

\* returns <<mesh_obj, armature_obj>>, each an index into objs or 0 for None
FindBestHumanoidCandidate(objs) ==
    LET armature_obj == ArmatureScan(objs, 1, 0, 0)
    IN  <<MeshScan(objs, 1, armature_obj, 0, 0), armature_obj>>

-----------------------------------------------------------------------------
(* get_armature_modifier, detect_rig_type *)

\* index of the first armature modifier that has a target, 0 for None
GetArmatureModifier(objs, mesh) ==
    IF mesh = 0 \/ objs[mesh].type # "MESH" THEN 0
    ELSE LET mods == objs[mesh].modifiers
             hit == {k \in 1..Len(mods) :
                        mods[k].type = "ARMATURE" /\ mods[k].object # None}
         IN  IF hit = {} THEN 0 ELSE CHOOSE k \in hit : \A j \in hit : k <= j

MixamoHits(bones) ==
    Cardinality({i \in 1..Len(bones) : Contains(MIXAMORIG, Lower(bones[i].name))})

\* as RigTypeOfBones, with both thresholds off by one
RigTypeOfBonesInclusive(bones) ==
    IF MixamoHits(bones) >= 5 THEN "mixamo"
    ELSE IF Len(bones) >= 10 THEN "generic_humanoid"
    ELSE "unknown"

\* the decision over the bone names of an armature
RigTypeOfBones(bones) ==
    IF MixamoHits(bones) > 5 THEN "mixamo"
    ELSE IF Len(bones) > 10 THEN "generic_humanoid"
    ELSE "unknown"

\* armature_obj.data.bones raises AttributeError on an object that is not an armature
DetectRigType(objs, armature_obj) ==
    IF armature_obj = 0 THEN Ret("mesh_only")
    ELSE IF objs[armature_obj].type # "ARMATURE" THEN Raise("AttributeError")
    ELSE Ret(RigTypeOfBones(objs[armature_obj].bones))

-----------------------------------------------------------------------------
(* build_normalized_description (src/addon.py) *)

\* b.name.lower().replace("_", "").replace("-", "").replace(" ", "").split(':')[-1]
NormKey(name) == SplitLast(Remove(Remove(Remove(Lower(name), "_"), "-"), " "), ":")

\* the dict comprehension {key(b.name): b.name for b in bones}: a key stands
\* where its first bone put it, with the name of its last bone as the value
\* as BoneMap, with the key stored as the value
BoneMapOfKeys(bones) ==
    LET key == Tuple([i \in 1..Len(bones) |-> NormKey(bones[i].name)])
        first == SelectSeq(Indices(bones),
                           LAMBDA i : \A j \in 1..(i - 1) : key[j] # key[i])
    IN  [k \in 1..Len(first) |-> <<key[first[k]], key[first[k]]>>]

BoneMap(bones) ==
    LET key == Tuple([i \in 1..Len(bones) |-> NormKey(bones[i].name)])
        first == SelectSeq(Indices(bones),
                           LAMBDA i : \A j \in 1..(i - 1) : key[j] # key[i])
    IN  [k \in 1..Len(first) |->
            <<key[first[k]],
              bones[SetMax({j \in 1..Len(bones) : key[j] = key[first[k]]})].name>>]

\* next((f for f in [...] if f in child.name.lower()), None)
FingerName(name) ==
    LET hit == {k \in 1..Len(FINGERS) : Contains(FINGERS[k], Lower(name))}
    IN  IF hit = {} THEN None ELSE FINGERS[CHOOSE k \in hit : \A j \in hit : k <= j]

\* as ChainNames, with child.children in place of child.children_recursive
ChainNamesOneLevel(bones, child) ==
    LET chain == <<child>> \o Children(bones, child)
    IN  [k \in 1..Len(chain) |-> bones[chain[k]].name]

\* [b.name for b in [child] + child.children_recursive]
ChainNames(bones, child) ==
    LET chain == <<child>> \o ChildrenRecursive(bones, child)
    IN  [k \in 1..Len(chain) |-> bones[chain[k]].name]

\* the loop `for child in hand_bone.children`, over the first n children
RECURSIVE FingerLoop(_, _, _)
FingerLoop(bones, kids, n) ==
    IF n = 0 THEN <<>>
    ELSE LET fingers == FingerLoop(bones, kids, n - 1)
             finger_name == FingerName(bones[kids[n]].name)
         IN  IF finger_name # None
             THEN DictSet(fingers, finger_name, ChainNames(bones, kids[n]))
             ELSE fingers

\* the fingers dict of a hand bone given by name (None: the block is skipped)
DetectFingers(bones, hand_name) ==
    IF hand_name = None THEN <<>>
    ELSE LET kids == Children(bones, BoneGet(bones, hand_name))
         IN  FingerLoop(bones, kids, Len(kids))

\* as MeshPart, without adopting the modifier's target
MeshPartNoAdopt(objs, mesh_obj, armature_obj) ==
    IF mesh_obj = 0 THEN [norm |-> NewNormalizedHumanoid, armature_obj |-> armature_obj]
    ELSE [norm |-> [NewNormalizedHumanoid EXCEPT
                       !.mesh_name = objs[mesh_obj].name,
                       !.vertex_count = objs[mesh_obj].verts,
                       !.has_armature_modifier = GetArmatureModifier(objs, mesh_obj) # 0],
          armature_obj |-> armature_obj]

\* norm after the `if mesh_obj:` block, and the armature it leaves selected
MeshPart(objs, mesh_obj, armature_obj) ==
    IF mesh_obj = 0 THEN [norm |-> NewNormalizedHumanoid, armature_obj |-> armature_obj]
    ELSE LET armature_mod == GetArmatureModifier(objs, mesh_obj)
             n1 == [NewNormalizedHumanoid EXCEPT
                        !.mesh_name = objs[mesh_obj].name,
                        !.vertex_count = objs[mesh_obj].verts]
         IN  IF armature_mod = 0 THEN [norm |-> n1, armature_obj |-> armature_obj]
             ELSE [norm |-> [n1 EXCEPT !.has_armature_modifier = TRUE],
                   armature_obj |->
                       IF armature_obj = 0
                       THEN Get(objs, objs[mesh_obj].modifiers[armature_mod].object)
                       ELSE armature_obj]

\* the bone mapping and finger detection on the bones of the armature
BonePart(norm, bones) ==
    LET bone_map == BoneMap(bones)
        nb == [hips |-> DictGet(bone_map, KEY_HIPS),
               head |-> DictGet(bone_map, KEY_HEAD),
               hand_l |-> DictGet(bone_map, KEY_LEFTHAND),
               hand_r |-> DictGet(bone_map, KEY_RIGHTHAND)]
    IN  [norm EXCEPT !.bones = nb,
                     !.fingers_l = DetectFingers(bones, nb.hand_l),
                     !.fingers_r = DetectFingers(bones, nb.hand_r)]

\* len(mesh_obj.data.vertices) raises AttributeError on an object that is not a
\* mesh; detect_rig_type raises on an object that is not an armature
BuildNormalizedDescription(objs, mesh_obj, armature_obj) ==
    IF mesh_obj # 0 /\ objs[mesh_obj].type # "MESH" THEN Raise("AttributeError")
    ELSE LET mp == MeshPart(objs, mesh_obj, armature_obj)
             arm == mp.armature_obj
         IN  IF arm = 0 THEN Ret([mp.norm EXCEPT !.rig_type = "mesh_only"])
             ELSE LET rt == DetectRigType(objs, arm)
                  IN  IF rt.raised THEN rt
                      ELSE Ret(BonePart([mp.norm EXCEPT
                                            !.armature_name = objs[arm].name,
                                            !.rig_type = rt.value],
                                        objs[arm].bones))

\* the objects resolved by rigging_inspect_humanoid_rig: <<mesh_obj, armature_obj>>
Resolve(objs, mesh_name, armature_name) ==
    LET mesh_obj == IF mesh_name # None THEN Get(objs, mesh_name) ELSE 0
        armature_obj == IF armature_name # None THEN Get(objs, armature_name) ELSE 0
    IN  IF mesh_obj = 0 /\ armature_obj = 0
        THEN FindBestHumanoidCandidate(objs)
        ELSE <<mesh_obj, armature_obj>>

NO_MESH == "Could not find a suitable mesh object in the scene."

\* rigging_inspect_humanoid_rig: the returned dict, or the exception raised
InspectHumanoidRig(objs, mesh_name, armature_name) ==
    LET r == Resolve(objs, mesh_name, armature_name)
    IN  IF r[1] = 0 THEN Ret([error |-> NO_MESH])
        ELSE LET normalized_rig == BuildNormalizedDescription(objs, r[1], r[2])
             IN  IF normalized_rig.raised THEN normalized_rig
                 ELSE Ret(ToDict(normalized_rig.value))

-----------------------------------------------------------------------------
(* build_normalized_description, inspect_humanoid_rig
   (src/src/blender_mcp/rigging/humanoid.py) *)

SPINE == <<"s","p","i","n","e">>

\* b.name.lower().split(':')[-1]
LibNormKey(name) == SplitLast(Lower(name), ":")

\* the same dict comprehension with the library's key
LibBoneMap(bones) ==
    LET key == Tuple([i \in 1..Len(bones) |-> LibNormKey(bones[i].name)])
        first == SelectSeq(Indices(bones),
                           LAMBDA i : \A j \in 1..(i - 1) : key[j] # key[i])
    IN  [k \in 1..Len(first) |->
            <<key[first[k]],
              bones[SetMax({j \in 1..Len(bones) : key[j] = key[first[k]]})].name>>]

\* [b.name for b in hips_bone.children_recursive if "spine" in b.name.lower()]
LibSpineChain(bones, hips_name) ==
    IF hips_name = None THEN <<>>
    ELSE LET below == SelectSeq(ChildrenRecursive(bones, BoneGet(bones, hips_name)),
                                LAMBDA j : Contains(SPINE, Lower(bones[j].name)))
         IN  [k \in 1..Len(below) |-> bones[below[k]].name]

\* the `if norm.rig_type == "mixamo":` block; other rigs are left sparse
LibBonePart(norm, bones) ==
    IF norm.rig_type # "mixamo" THEN norm
    ELSE LET bone_map == LibBoneMap(bones)
             nb == [hips |-> DictGet(bone_map, KEY_HIPS),
                    head |-> DictGet(bone_map, KEY_HEAD),
                    hand_l |-> DictGet(bone_map, KEY_LEFTHAND),
                    hand_r |-> DictGet(bone_map, KEY_RIGHTHAND)]
         IN  [norm EXCEPT !.bones = nb,
                          !.bone_chains.spine = LibSpineChain(bones, nb.hips)]

LibBuildNormalizedDescription(objs, mesh_obj, armature_obj) ==
    IF mesh_obj # 0 /\ objs[mesh_obj].type # "MESH" THEN Raise("AttributeError")
    ELSE LET mp == MeshPart(objs, mesh_obj, armature_obj)
             arm == mp.armature_obj
         IN  IF arm = 0 THEN Ret([mp.norm EXCEPT !.rig_type = "mesh_only"])
             ELSE LET rt == DetectRigType(objs, arm)
                  IN  IF rt.raised THEN rt
                      ELSE Ret(LibBonePart([mp.norm EXCEPT
                                               !.armature_name = objs[arm].name,
                                               !.rig_type = rt.value],
                                           objs[arm].bones))

\* inspect_humanoid_rig of the library module
LibInspectHumanoidRig(objs, mesh_name, armature_name) ==
    LET r == Resolve(objs, mesh_name, armature_name)
    IN  IF r[1] = 0 THEN Ret([error |-> NO_MESH])
        ELSE LET normalized_rig == LibBuildNormalizedDescription(objs, r[1], r[2])
             IN  IF normalized_rig.raised THEN normalized_rig
                 ELSE Ret(ToDict(normalized_rig.value))

-----------------------------------------------------------------------------
(* Scenes the commands are run on *)

\* at most this many objects in the scene
MaxObjs == 3

B(name, parent) == [name |-> name, parent |-> parent]

Mx(name) == MIXAMORIG \o name

Body == <<"B","o","d","y">>

Prop == <<"P","r","o","p">>

Rig == <<"R","i","g">>

Rig2 == <<"R","i","g","2">>

\* a name no object has
Ghost == <<"G","h","o","s","t">>

\* 7 bones, 3 of them mixamo-prefixed
SkeletonScenario ==
    <<B(Mx(<<"H","i","p","s">>), 0),
      B(Mx(<<"H","e","a","d">>), 1),
      B(Mx(<<"L","e","f","t","H","a","n","d">>), 1),
      B(<<"T","h","u","m","b","1">>, 3),
      B(<<"T","h","u","m","b","2">>, 4),
      B(<<"p","a","l","m">>, 3),
      B(<<"I","n","d","e","x","R","i","n","g">>, 3)>>

\* 8 bones, all mixamo-prefixed
SkeletonMixamo ==
    <<B(Mx(<<"H","i","p","s">>), 0),
      B(Mx(<<"S","p","i","n","e">>), 1),
      B(Mx(<<"H","e","a","d">>), 2),
      B(Mx(<<"L","e","f","t","H","a","n","d">>), 2),
      B(Mx(<<"L","e","f","t","H","a","n","d","T","h","u","m","b","1">>), 4),
      B(Mx(<<"L","e","f","t","H","a","n","d","T","h","u","m","b","2">>), 5),
      B(Mx(<<"R","i","g","h","t","_","H","a","n","d">>), 2),
      B(Mx(<<"R","i","g","h","t","H","a","n","d","I","n","d","e","x","1">>), 7)>>

\* 14 bones, none mixamo-prefixed
SkeletonGeneric ==
    <<B(<<"H","i","p","s">>, 0),
      B(<<"S","p","i","n","e">>, 1),
      B(<<"H","e","a","d">>, 2),
      B(<<"h","e","a","d">>, 3),
      B(<<"L","e","f","t"," ","H","a","n","d">>, 2),
      B(<<"t","h","u","m","b","_","0","1","_","l">>, 5),
      B(<<"t","h","u","m","b","_","0","2","_","l">>, 6),
      B(<<"t","h","u","m","b","_","0","3","_","l">>, 7),
      B(<<"R","i","g","h","t","-","H","a","n","d">>, 2),
      B(<<"T","h","u","m","b",".","R">>, 9),
      B(<<"T","h","u","m","b","T","w","i","s","t",".","R">>, 9),
      B(<<"p","i","n","k","y","_","r">>, 9),
      B(<<"p","i","n","k","y","_","r","_","t","i","p">>, 12),
      B(<<"p","i","n","k","y","_","r","_","s","i","d","e">>, 12)>>

\* exactly 10 bones, exactly 5 of them mixamo-prefixed (one in another case)
SkeletonEdge ==
    <<B(Mx(<<"H","i","p","s">>), 0),
      B(Mx(<<"S","p","i","n","e">>), 1),
      B(Mx(<<"N","e","c","k">>), 2),
      B(Mx(<<"H","e","a","d">>), 3),
      B(<<"M","i","x","a","m","o","R","i","g",":">> \o <<"L","e","f","t","H","a","n","d">>, 2),
      B(<<"r","o","o","t">>, 0),
      B(<<"t","a","i","l">>, 1),
      B(<<"p","o","l","e">>, 0),
      B(<<"i","k">>, 8),
      B(<<"p","r","o","p">>, 0)>>

SkeletonEmpty == <<>>

RigSkeletons ==
    {SkeletonEmpty, SkeletonScenario, SkeletonMixamo, SkeletonGeneric, SkeletonEdge}

\* bone counts 0, 7 (as Rig2) and 10
SelectSkeletons == {SkeletonEmpty, SkeletonScenario, SkeletonEdge}

ArmatureMod(target) == [type |-> "ARMATURE", object |-> target]

SubsurfMod == [type |-> "SUBSURF", object |-> None]

BodyModifiers ==
    {<<>>, <<ArmatureMod(None)>>, <<ArmatureMod(Rig)>>,
     <<ArmatureMod(None), ArmatureMod(Rig2)>>}

PropModifiers == {<<>>, <<SubsurfMod, ArmatureMod(Rig)>>}

BodyVerts == {0, 3, 5}

PropVerts == {0, 5}

MeshObject(name, verts, modifiers) ==
    [name |-> name, type |-> "MESH", bones |-> <<>>, verts |-> verts,
     modifiers |-> modifiers, vertex_groups |-> <<>>, parent |-> None,
     posed |-> FALSE]

ArmatureObject(name, bones) ==
    [name |-> name, type |-> "ARMATURE", bones |-> bones, verts |-> 0,
     modifiers |-> <<>>, vertex_groups |-> <<>>, parent |-> None,
     posed |-> FALSE]

Slots == {Body, Prop, Rig, Rig2}

\* the scene orders: sequences of distinct objects
Orders ==
    {o \in UNION {[1..n -> Slots] : n \in 0..MaxObjs} :
        \A i, j \in DOMAIN o : i # j => o[i] # o[j]}

Range(f) == {f[i] : i \in DOMAIN f}

Targets(mods) == {mods[k].object : k \in 1..Len(mods)} \ {None}

NoCall == [cmd |-> "none", args |-> <<>>, result |-> Ret(None), again |-> FALSE]

\* the scene of the objects named in o, in that order
SceneObjects(o, rb, rb2, bv, pv, bm, pm) ==
    Tuple([i \in DOMAIN o |->
              IF o[i] = Body THEN MeshObject(Body, bv, bm)
              ELSE IF o[i] = Prop THEN MeshObject(Prop, pv, pm)
              ELSE IF o[i] = Rig THEN ArmatureObject(Rig, rb)
              ELSE ArmatureObject(Rig2, rb2)])

\* every modifier target is an object of the scene
TargetsIn(o, bm, pm) ==
    /\ Body \in Range(o) => Targets(bm) \subseteq Range(o)
    /\ Prop \in Range(o) => Targets(pm) \subseteq Range(o)

\* scenes for the commands: any skeleton, any modifier stack on Body
Init ==
    /\ \E o \in Orders, rb \in RigSkeletons, bm \in BodyModifiers :
           /\ TargetsIn(o, bm, <<>>)
           /\ objects = SceneObjects(o, rb, SkeletonScenario, 3, 5, bm, <<>>)
    /\ active = None
    /\ selected = {}
    /\ mode = "OBJECT"
    /\ last = NoCall
    /\ ServerIdle

\* scenes for the candidate selector: any order, bone counts, vertex counts
\* and modifier stacks
InitSelect ==
    /\ \E o \in Orders, rb \in SelectSkeletons, bv \in BodyVerts, pv \in PropVerts,
          bm \in BodyModifiers, pm \in PropModifiers :
           /\ TargetsIn(o, bm, pm)
           /\ objects = SceneObjects(o, rb, SkeletonScenario, bv, pv, bm, pm)
    /\ active = None
    /\ selected = {}
    /\ mode = "OBJECT"
    /\ last = NoCall
    /\ ServerIdle

-----------------------------------------------------------------------------
(* Calls *)

\* the names a caller passes
ArgNames == {None, Body, Rig, Ghost}

Scene == [objects |-> objects, active |-> active, selected |-> selected, mode |-> mode]

\* as RiggingInspectHumanoidRig, making the inspected mesh the active object
RiggingInspectSelecting(scene, mesh_name, armature_name) ==
    [scene |-> [scene EXCEPT
                   !.active = LET r == Resolve(scene.objects, mesh_name, armature_name)
                              IN  IF r[1] = 0 THEN scene.active
                                  ELSE scene.objects[r[1]].name],
     result |-> InspectHumanoidRig(scene.objects, mesh_name, armature_name)]

\* rigging_inspect_humanoid_rig as a command: the scene it leaves and its result
RiggingInspectHumanoidRig(scene, mesh_name, armature_name) ==
    [scene |-> scene,
     result |-> InspectHumanoidRig(scene.objects, mesh_name, armature_name)]

\* a command ran: the scene it left, and the record of the call
Called(cmd, args, out) ==
    /\ objects' = out.scene.objects
    /\ active' = out.scene.active
    /\ selected' = out.scene.selected
    /\ mode' = out.scene.mode
    /\ last' = [cmd |-> cmd, args |-> args, result |-> out.result,
                again |-> last.cmd = cmd /\ last.args = args]

\* a command ran, called directly
Ran(cmd, args, out) ==
    /\ Called(cmd, args, out)
    /\ UNCHANGED <<conn, timers, executing>>

Inspect ==
    \E mesh_name \in ArgNames, armature_name \in ArgNames :
        Ran("inspect_humanoid_rig", <<mesh_name, armature_name>>,
            RiggingInspectHumanoidRig(Scene, mesh_name, armature_name))

\* the library's inspect_humanoid_rig
LibInspect ==
    \E mesh_name \in ArgNames, armature_name \in ArgNames :
        Ran("lib_inspect_humanoid_rig", <<mesh_name, armature_name>>,
            [scene |-> Scene,
             result |-> LibInspectHumanoidRig(objects, mesh_name, armature_name)])

\* detect_rig_type on an armature of the scene, or on None
CallDetectRigType ==
    \E a \in 0..Len(objects) :
        /\ a # 0 => objects[a].type = "ARMATURE"
        /\ Ran("detect_rig_type", <<a>>,
               [scene |-> Scene, result |-> DetectRigType(objects, a)])

CallFindBest ==
    Ran("find_best_humanoid_candidate", <<>>,
        [scene |-> Scene, result |-> Ret(FindBestHumanoidCandidate(objects))])

Next == Inspect

Spec == Init /\ [][Next]_vars

\* the library's inspection, on the same scenes
NextLib == LibInspect

SpecLib == Init /\ [][NextLib]_vars

\* the candidate selector
NextSelect == CallFindBest

SpecSelect == InitSelect /\ [][NextSelect]_vars

-----------------------------------------------------------------------------
(* The classifier on armatures of h mixamo-prefixed and p other bones *)

MaxHits == 7

MaxPlain == 12

DigitChars == <<"0","1","2","3","4","5","6","7","8","9">>

Digits(k) == <<DigitChars[(k \div 10) + 1], DigitChars[(k % 10) + 1]>>

\* the prefix, in upper case for every other bone
CountedName(k, hit) ==
    IF hit
    THEN (IF k % 2 = 0 THEN <<"M","I","X","A","M","O","R","I","G",":">> ELSE MIXAMORIG)
         \o <<"b">> \o Digits(k)
    ELSE (IF k % 2 = 0 THEN <<"m","i","x","a","m","o","r","i","g","_">> ELSE <<>>)
         \o <<"b">> \o Digits(k)

\* a chain of h + p bones, the mixamo-prefixed ones first
CountedBones(h, p) == Tuple([k \in 1..(h + p) |-> B(CountedName(k, k <= h), k - 1)])

InitClassify ==
    /\ \E h \in 0..MaxHits, p \in 0..MaxPlain :
           objects = <<ArmatureObject(Rig, CountedBones(h, p))>>
    /\ active = None
    /\ selected = {}
    /\ mode = "OBJECT"
    /\ last = NoCall
    /\ ServerIdle

NextClassify == CallDetectRigType

SpecClassify == InitClassify /\ [][NextClassify]_vars

-----------------------------------------------------------------------------
(* rigging_auto_rig_meshy_character *)

NO_MESH_TO_RIG == "Could not find a suitable mesh to rig."

TBD_BY_ARP == <<"T","B","D","_","b","y","_","A","R","P">>

\* the most armatures the fallback is let to add to one scene
MaxRigs == 2

Side(base, side) == base \o <<".", side>>

UPPER_ARM == <<"u","p","p","e","r","_","a","r","m">>

LOWER_ARM == <<"l","o","w","e","r","_","a","r","m">>

HAND == <<"h","a","n","d">>

THIGH == <<"t","h","i","g","h">>

CALF == <<"c","a","l","f">>

FOOT == <<"f","o","o","t">>

\* as FallbackBones, the arms hanging from the hips
FallbackBonesArmsOnHips ==
    <<B(<<"h","i","p","s">>, 0), B(SPINE, 1), B(<<"n","e","c","k">>, 2),
      B(KEY_HEAD, 3),
      B(Side(UPPER_ARM, "l"), 1), B(Side(LOWER_ARM, "l"), 5), B(Side(HAND, "l"), 6),
      B(Side(UPPER_ARM, "r"), 1), B(Side(LOWER_ARM, "r"), 8), B(Side(HAND, "r"), 9),
      B(Side(THIGH, "l"), 1), B(Side(CALF, "l"), 11), B(Side(FOOT, "l"), 12),
      B(Side(THIGH, "r"), 1), B(Side(CALF, "r"), 14), B(Side(FOOT, "r"), 15)>>

\* the bones the fallback creates, in creation order, each with its parent
FallbackBones ==
    <<B(<<"h","i","p","s">>, 0), B(SPINE, 1), B(<<"n","e","c","k">>, 2),
      B(KEY_HEAD, 3),
      B(Side(UPPER_ARM, "l"), 2), B(Side(LOWER_ARM, "l"), 5), B(Side(HAND, "l"), 6),
      B(Side(UPPER_ARM, "r"), 2), B(Side(LOWER_ARM, "r"), 8), B(Side(HAND, "r"), 9),
      B(Side(THIGH, "l"), 1), B(Side(CALF, "l"), 11), B(Side(FOOT, "l"), 12),
      B(Side(THIGH, "r"), 1), B(Side(CALF, "r"), 14), B(Side(FOOT, "r"), 15)>>

Suffix(k) == <<".", "0", "0", DigitChars[k + 1]>>

\* the name the host gives a new object: base, or base with the first free
\* numeric suffix
RECURSIVE UniqueName(_, _, _)
UniqueName(objs, base, k) ==
    IF k = 0
    THEN IF Get(objs, base) = 0 THEN base ELSE UniqueName(objs, base, 1)
    ELSE IF Get(objs, base \o Suffix(k)) = 0 \/ k = 9 THEN base \o Suffix(k)
    ELSE UniqueName(objs, base, k + 1)

\* the vertex groups after adding one per name that has none yet
RECURSIVE AddGroups(_, _, _)
AddGroups(groups, names, n) ==
    IF n = 0 THEN groups
    ELSE LET g == AddGroups(groups, names, n - 1)
         IN  IF \E k \in 1..Len(g) : g[k] = names[n] THEN g ELSE Append(g, names[n])

\* as ParentSetArmatureAuto, without the armature modifier
ParentSetKeepingModifiers(scene) ==
    LET arm == Get(scene.objects, scene.active)
        names == Tuple([k \in 1..Len(scene.objects[arm].bones) |->
                           scene.objects[arm].bones[k].name])
    IN  [scene EXCEPT !.objects = Tuple([i \in 1..Len(scene.objects) |->
            IF scene.objects[i].name \in scene.selected /\ i # arm
            THEN [scene.objects[i] EXCEPT
                     !.parent = scene.active,
                     !.vertex_groups = AddGroups(@, names, Len(names))]
            ELSE scene.objects[i]])]

\* bpy.ops.object.parent_set(type='ARMATURE_AUTO'): every selected object other
\* than the active armature gets it as parent, an armature modifier targeting
\* it unless it has one, and a vertex group for each bone
ParentSetArmatureAuto(scene) ==
    LET arm == Get(scene.objects, scene.active)
        names == Tuple([k \in 1..Len(scene.objects[arm].bones) |->
                           scene.objects[arm].bones[k].name])
    IN  [scene EXCEPT !.objects = Tuple([i \in 1..Len(scene.objects) |->
            IF scene.objects[i].name \in scene.selected /\ i # arm
            THEN [scene.objects[i] EXCEPT
                     !.parent = scene.active,
                     !.modifiers =
                         IF \E k \in 1..Len(@) : @[k] = ArmatureMod(scene.active)
                         THEN @ ELSE Append(@, ArmatureMod(scene.active)),
                     !.vertex_groups = AddGroups(@, names, Len(names))]
            ELSE scene.objects[i]])]

\* the mesh the command works on, 0 for None
TargetMesh(objs, mesh_name) ==
    IF mesh_name # None THEN Get(objs, mesh_name)
    ELSE FindBestHumanoidCandidate(objs)[1]

\* the basic bpy implementation: a new armature named after the mesh, its
\* bones made in edit mode, and the mesh parented to it with automatic weights
FallbackRig(scene, mesh_obj) ==
    LET mesh_name == scene.objects[mesh_obj].name
        name == UniqueName(scene.objects, mesh_name \o RIG_SUFFIX, 0)
        linked == [scene EXCEPT !.objects = Append(@, ArmatureObject(name, <<>>)),
                                !.active = name,
                                !.mode = "EDIT"]
        armature_obj == Len(linked.objects)
        boned == [linked EXCEPT !.objects[armature_obj].bones = FallbackBones,
                                !.mode = "OBJECT"]
        picked == [boned EXCEPT !.selected = {mesh_name, name}, !.active = name]
        done == ParentSetArmatureAuto(picked)
    IN  [scene |-> done,
         result |-> Ret([status |-> "success",
                         message |-> [text |-> "Created a basic fallback rig for '{}' and applied automatic weights.",
                                      args |-> <<mesh_name>>],
                         armature_name |-> name,
                         used_auto_rig_pro |-> FALSE,
                         bone_count |-> Len(done.objects[armature_obj].bones)])]

\* the command once the inspection of the mesh has returned
AutoRigInspected(inspected, mesh_obj, name, use_auto_rig_pro, arp_installed) ==
    IF inspected.result.raised THEN inspected
    ELSE IF ~("rig_type" \in DOMAIN inspected.result.value
              /\ inspected.result.value.rig_type = "mesh_only")
    THEN [scene |-> inspected.scene,
          result |-> Ret([status |-> "skipped",
                          message |-> [text |-> "Mesh '{}' already has an armature '{}'. No action taken.",
                                       args |-> <<name,
                                                  IF "armature_name" \in DOMAIN inspected.result.value
                                                  THEN inspected.result.value.armature_name
                                                  ELSE None>>],
                          details |-> inspected.result.value])]
    ELSE IF use_auto_rig_pro /\ arp_installed
    THEN [scene |-> inspected.scene,
          result |-> Ret([status |-> "success_placeholder",
                          message |-> [text |-> "Auto-Rig Pro was detected. A full implementation would now rig '{}'.",
                                       args |-> <<name>>],
                          armature_name |-> TBD_BY_ARP,
                          used_auto_rig_pro |-> TRUE])]
    ELSE FallbackRig(inspected.scene, mesh_obj)

\* the command on the mesh found
AutoRigMesh(scene, mesh_obj, use_auto_rig_pro, arp_installed) ==
    IF mesh_obj = 0 THEN [scene |-> scene, result |-> Ret([error |-> NO_MESH_TO_RIG])]
    ELSE AutoRigInspected(
             RiggingInspectHumanoidRig(scene, scene.objects[mesh_obj].name, None),
             mesh_obj, scene.objects[mesh_obj].name, use_auto_rig_pro, arp_installed)

\* rigging_auto_rig_meshy_character; arp_installed says whether
\* `import auto_rig_pro` succeeds
RiggingAutoRigMeshyCharacter(scene, mesh_name, use_auto_rig_pro, arp_installed) ==
    AutoRigMesh(scene, TargetMesh(scene.objects, mesh_name), use_auto_rig_pro,
                arp_installed)

AutoRig ==
    /\ Len(objects) <= MaxObjs + MaxRigs
    /\ \E mesh_name \in ArgNames, use_auto_rig_pro \in BOOLEAN, arp_installed \in BOOLEAN :
           Ran("auto_rig_meshy_character", <<mesh_name, use_auto_rig_pro>>,
               RiggingAutoRigMeshyCharacter(Scene, mesh_name, use_auto_rig_pro,
                                            arp_installed))

AutoRigSkeletons == {SkeletonEmpty, SkeletonGeneric}

AutoRigModifiers == {<<>>, <<ArmatureMod(None)>>, <<ArmatureMod(Rig)>>}

\* scenes for auto_rig: meshes without a rig, with one, and with a modifier
\* that has no target
InitAutoRig ==
    /\ \E o \in Orders, rb \in AutoRigSkeletons, bm \in AutoRigModifiers :
           /\ TargetsIn(o, bm, <<>>)
           /\ objects = SceneObjects(o, rb, SkeletonScenario, 3, 5, bm, <<>>)
    /\ active = None
    /\ selected = {}
    /\ mode = "OBJECT"
    /\ last = NoCall
    /\ ServerIdle

NextAutoRig == AutoRig

SpecAutoRig == InitAutoRig /\ [][NextAutoRig]_vars

-----------------------------------------------------------------------------
(* rigging_ensure_finger_chains_for_hand, rigging_rename_fingers_to_ue5 *)

LEFT == <<"l","e","f","t">>

RIGHT == <<"r","i","g","h","t">>

BOTH == <<"b","o","t","h">>

\* a str key as the field name it selects in a mapping
FieldName(s) ==
    IF s = <<"l">> THEN "l"
    ELSE IF s = <<"r">> THEN "r"
    ELSE IF s = LEFT THEN "left"
    ELSE IF s = RIGHT THEN "right"
    ELSE "?"

\* the KeyError of inspection["hands"][s]
HandsKeyError(s) ==
    IF s = <<"l">> THEN "KeyError: 'l'"
    ELSE IF s = <<"r">> THEN "KeyError: 'r'"
    ELSE "KeyError"

\* bpy.data.objects.get(None) raises KeyError: the key must be a string
GET_NONE == "KeyError: bpy_prop_collection.get(key, ...): key must be a string"

NO_HAND_BONE == "Could not find hand bone for side '{}' in the rig."

NO_ARMATURE == "Could not find armature '{}'."

\* str(n), n < 100
Str(n) == IF n < 10 THEN <<DigitChars[n + 1]>> ELSE Digits(n)

\* the name the host gives a new bone
RECURSIVE UniqueBoneName(_, _, _)
UniqueBoneName(bones, base, k) ==
    IF k = 0
    THEN IF BoneGet(bones, base) = 0 THEN base ELSE UniqueBoneName(bones, base, 1)
    ELSE IF BoneGet(bones, base \o Suffix(k)) = 0 \/ k = 9 THEN base \o Suffix(k)
    ELSE UniqueBoneName(bones, base, k + 1)

\* the bones after `for i in range(finger_segments)`, from segment i on
RECURSIVE NewChain(_, _, _, _, _, _)
NewChain(bones, finger_name, side_suffix, parent_bone, i, finger_segments) ==
    IF i >= finger_segments THEN bones
    ELSE LET bone_name == UniqueBoneName(bones,
                              finger_name \o <<"_">> \o Str(i + 1) \o side_suffix, 0)
             added == Append(bones, B(bone_name, parent_bone))
         IN  NewChain(added, finger_name, side_suffix, Len(added), i + 1,
                      finger_segments)

\* the bones and created_fingers after the first n names of `for finger_name in fingers`
RECURSIVE EnsureLoop(_, _, _, _, _, _)
EnsureLoop(bones, hand_bone, fingers, side_suffix, finger_segments, n) ==
    IF n = 0 THEN [bones |-> bones, created_fingers |-> <<>>]
    ELSE LET before == EnsureLoop(bones, hand_bone, fingers, side_suffix,
                                  finger_segments, n - 1)
             finger_name == fingers[n]
             kids == Children(before.bones, hand_bone)
         IN  IF \E k \in 1..Len(kids) :
                    StartsWith(Lower(before.bones[kids[k]].name), finger_name)
             THEN [bones |-> before.bones,
                   created_fingers |-> DictSet(before.created_fingers, finger_name,
                                               "existed")]
             ELSE [bones |-> NewChain(before.bones, finger_name, side_suffix,
                                      hand_bone, 0, finger_segments),
                   created_fingers |-> DictSet(before.created_fingers, finger_name,
                                               "created")]

\* the name of the hand bone to complete: Ret(name), Ret(None), or the KeyError
HandBoneName(bones, inspection, side) ==
    LET hand_bone_name == HAND \o <<".">> \o Lower(side)
    IN  IF BoneGet(bones, hand_bone_name) # 0 THEN Ret(hand_bone_name)
        ELSE IF FieldName(Lower(side)) \notin DOMAIN inspection.hands
        THEN Raise(HandsKeyError(Lower(side)))
        ELSE Ret(inspection.hands[FieldName(Lower(side))].hand_bone)

\* the loop over the fingers in edit mode, and the result returned
EnsureFingers(scene, inspection, armature_obj, hand_bone, side, finger_segments, fingers, loop) ==
    [scene |-> [scene EXCEPT !.active = inspection.armature_name,
                             !.objects[armature_obj].bones = loop.bones,
                             !.mode = "OBJECT"],
     result |-> Ret([status |-> "success",
                     message |-> [text |-> "Verified finger chains for side '{}'.",
                                  args |-> <<side>>],
                     armature_name |-> inspection.armature_name,
                     side |-> side,
                     finger_status |-> loop.created_fingers])]

\* the command from the hand bone name on
EnsureOnHand(scene, inspection, armature_obj, bones, hand_bone_name, side, finger_segments, fingers) ==
    IF hand_bone_name.raised THEN [scene |-> scene, result |-> hand_bone_name]
    ELSE IF hand_bone_name.value = None
    THEN [scene |-> scene, result |-> Ret([error |-> NO_HAND_BONE])]
    ELSE EnsureFingers(scene, inspection, armature_obj,
                       BoneGet(bones, hand_bone_name.value), side, finger_segments,
                       fingers,
                       EnsureLoop(bones, BoneGet(bones, hand_bone_name.value), fingers,
                                  <<".">> \o Lower(side), finger_segments,
                                  Len(fingers)))

\* the command from the armature lookup on
EnsureOnArmature(scene, inspection, armature_obj, side, finger_segments, fingers) ==
    IF armature_obj = 0 THEN [scene |-> scene, result |-> Ret([error |-> NO_ARMATURE])]
    ELSE EnsureOnHand(scene, inspection, armature_obj,
                      scene.objects[armature_obj].bones,
                      HandBoneName(scene.objects[armature_obj].bones, inspection, side),
                      side, finger_segments, fingers)

\* the command once the inspection has returned
EnsureInspected(inspected, side, finger_segments, fingers) ==
    IF inspected.result.raised \/ "error" \in DOMAIN inspected.result.value
    THEN inspected
    ELSE IF inspected.result.value.armature_name = None
    THEN [scene |-> inspected.scene, result |-> Raise(GET_NONE)]
    ELSE EnsureOnArmature(inspected.scene, inspected.result.value,
                          Get(inspected.scene.objects,
                              inspected.result.value.armature_name),
                          side, finger_segments, fingers)

\* rigging_ensure_finger_chains_for_hand
RiggingEnsureFingerChainsForHand(scene, armature_name, mesh_name, side, finger_segments, fingers) ==
    EnsureInspected(RiggingInspectHumanoidRig(scene, mesh_name, armature_name),
                    side, finger_segments,
                    IF fingers = None THEN FINGERS ELSE fingers)

\* proposed_mappings after the first n bones of a chain
RECURSIVE ChainMappings(_, _, _, _, _)
ChainMappings(proposed_mappings, finger_name, bone_chain, s, n) ==
    IF n = 0 THEN proposed_mappings
    ELSE LET before == ChainMappings(proposed_mappings, finger_name, bone_chain, s, n - 1)
             new_bone_name == finger_name \o <<"_">> \o Digits(n) \o <<"_">> \o s
         IN  IF bone_chain[n] # new_bone_name
             THEN DictSet(before, bone_chain[n], new_bone_name)
             ELSE before

\* proposed_mappings after the first n fingers of finger_data
RECURSIVE FingerMappings(_, _, _, _)
FingerMappings(proposed_mappings, finger_data, s, n) ==
    IF n = 0 THEN proposed_mappings
    ELSE ChainMappings(FingerMappings(proposed_mappings, finger_data, s, n - 1),
                       finger_data[n][1], finger_data[n][2], s, Len(finger_data[n][2]))

\* proposed_mappings after the first n of sides_to_process, or the KeyError
RECURSIVE SideMappings(_, _, _)
SideMappings(inspection, sides_to_process, n) ==
    IF n = 0 THEN Ret(<<>>)
    ELSE LET before == SideMappings(inspection, sides_to_process, n - 1)
             s == sides_to_process[n]
         IN  IF before.raised THEN before
             ELSE IF FieldName(s) \notin DOMAIN inspection.hands
             THEN Raise(HandsKeyError(s))
             ELSE LET finger_data == inspection.hands[FieldName(s)].fingers
                  IN  Ret(FingerMappings(before.value, finger_data, s, Len(finger_data)))

\* the bones and applied_mappings after the first n of proposed_mappings
RECURSIVE RenameLoop(_, _, _)
RenameLoop(bones, proposed_mappings, n) ==
    IF n = 0 THEN [bones |-> bones, applied_mappings |-> <<>>]
    ELSE LET before == RenameLoop(bones, proposed_mappings, n - 1)
             old_name == proposed_mappings[n][1]
             new_name == proposed_mappings[n][2]
             bone == BoneGet(before.bones, old_name)
         IN  IF bone # 0 /\ BoneGet(before.bones, new_name) = 0
             THEN [bones |-> [before.bones EXCEPT ![bone].name = new_name],
                   applied_mappings |-> DictSet(before.applied_mappings, old_name,
                                                new_name)]
             ELSE before

\* the renaming in edit mode, and the result returned
RenameBones(scene, inspection, armature_obj, loop) ==
    [scene |-> [scene EXCEPT !.active = inspection.armature_name,
                             !.objects[armature_obj].bones = loop.bones,
                             !.mode = "OBJECT"],
     result |-> Ret([status |-> "success",
                     message |-> [text |-> "Renamed {} bones to UE5 standard.",
                                  args |-> <<Len(loop.applied_mappings)>>],
                     applied_mappings |-> loop.applied_mappings])]

\* a renamer that gathers the fingers of both hands and renames without
\* looking at dry_run
RenameProposedApplying(scene, inspection, armature_obj, proposed_mappings, dry_run) ==
    RenameBones(scene, inspection, armature_obj,
                LET left == inspection.hands.left.fingers
                    right == inspection.hands.right.fingers
                    mappings == FingerMappings(
                                    FingerMappings(<<>>, left, <<"l">>, Len(left)),
                                    right, <<"r">>, Len(right))
                IN  RenameLoop(scene.objects[armature_obj].bones, mappings,
                               Len(mappings)))

\* the command from the proposed mappings on
RenameProposed(scene, inspection, armature_obj, proposed_mappings, dry_run) ==
    IF proposed_mappings.raised THEN [scene |-> scene, result |-> proposed_mappings]
    ELSE IF dry_run
    THEN [scene |-> scene,
          result |-> Ret([status |-> "success_dry_run",
                          message |-> "Dry run complete. No bones were renamed.",
                          proposed_mappings |-> proposed_mappings.value])]
    ELSE RenameBones(scene, inspection, armature_obj,
                     RenameLoop(scene.objects[armature_obj].bones,
                                proposed_mappings.value, Len(proposed_mappings.value)))

SidesToProcess(side) ==
    IF side = BOTH THEN <<(<<"l">>), (<<"r">>)>> ELSE <<Lower(side)>>

\* the command from the armature lookup on
RenameOnArmature(scene, inspection, armature_obj, side, dry_run) ==
    IF armature_obj = 0 THEN [scene |-> scene, result |-> Ret([error |-> NO_ARMATURE])]
    ELSE RenameProposed(scene, inspection, armature_obj,
                        SideMappings(inspection, SidesToProcess(side),
                                     Len(SidesToProcess(side))),
                        dry_run)

\* the command once the inspection has returned
RenameInspected(inspected, side, dry_run) ==
    IF inspected.result.raised \/ "error" \in DOMAIN inspected.result.value
    THEN inspected
    ELSE IF inspected.result.value.armature_name = None
    THEN [scene |-> inspected.scene, result |-> Raise(GET_NONE)]
    ELSE RenameOnArmature(inspected.scene, inspected.result.value,
                          Get(inspected.scene.objects,
                              inspected.result.value.armature_name),
                          side, dry_run)

\* rigging_rename_fingers_to_ue5
RiggingRenameFingersToUe5(scene, armature_name, side, include_body, dry_run) ==
    RenameInspected(RiggingInspectHumanoidRig(scene, None, armature_name), side,
                    dry_run)

\* hips and two hands, the right one with a thumb, and a bone index_1.l that
\* is no child of a hand
SkeletonHands ==
    <<B(KEY_HIPS, 0), B(Side(HAND, "l"), 1), B(Side(HAND, "r"), 1),
      B(<<"T","h","u","m","b",".","R">>, 3),
      B(<<"i","n","d","e","x","_","1",".","l">>, 1)>>

ConsumerSkeletons == {SkeletonHands, SkeletonGeneric}

ConsumerModifiers == {<<>>, <<ArmatureMod(Rig)>>}

\* scenes for the commands that read an inspection: Body and Rig
InitConsumers ==
    /\ \E o \in Orders, rb \in ConsumerSkeletons, bm \in ConsumerModifiers :
           /\ TargetsIn(o, bm, <<>>)
           /\ Range(o) \subseteq {Body, Rig}
           /\ objects = SceneObjects(o, rb, SkeletonScenario, 3, 5, bm, <<>>)
    /\ active = None
    /\ selected = {}
    /\ mode = "OBJECT"
    /\ last = NoCall
    /\ ServerIdle

ConsumerNames == {None, Rig}

EnsureFingerChains ==
    \E armature_name \in ConsumerNames, mesh_name \in {None, Body},
       side \in {<<"L">>, <<"R">>}, finger_segments \in {0, 2},
       fingers \in {None, <<THUMB>>} :
        Ran("ensure_finger_chains_for_hand",
            <<armature_name, mesh_name, side, finger_segments, fingers>>,
            RiggingEnsureFingerChainsForHand(Scene, armature_name, mesh_name, side,
                                             finger_segments, fingers))

RenameFingers ==
    \E armature_name \in ConsumerNames, side \in {<<"L">>, <<"R">>, BOTH},
       include_body \in BOOLEAN, dry_run \in BOOLEAN :
        Ran("rename_fingers_to_ue5", <<armature_name, side, include_body, dry_run>>,
            RiggingRenameFingersToUe5(Scene, armature_name, side, include_body,
                                      dry_run))

NextConsumers == EnsureFingerChains \/ RenameFingers

SpecConsumers == InitConsumers /\ [][NextConsumers]_vars

-----------------------------------------------------------------------------
(* rigging_auto_weight_fingers_only *)

NO_ARMATURE_OR_MESH == "Could not find armature or mesh object."

\* the modes bpy.ops.object.mode_set accepts for an active object of a type
ModesOf(type) ==
    IF type = "ARMATURE" THEN {"OBJECT", "EDIT", "POSE"}
    ELSE IF type = "MESH"
    THEN {"OBJECT", "EDIT", "SCULPT", "VERTEX_PAINT", "WEIGHT_PAINT", "TEXTURE_PAINT"}
    ELSE {"OBJECT"}

\* bpy.ops.object.mode_set(mode=...): the scene in the new mode, or the fault
\* raised when there is no active object or its type has no such mode
ModeSet(scene, new_mode) ==
    IF Get(scene.objects, scene.active) = 0 THEN Raise("RuntimeError")
    ELSE IF new_mode \notin ModesOf(scene.objects[Get(scene.objects, scene.active)].type)
    THEN Raise("TypeError")
    ELSE Ret([scene EXCEPT !.mode = new_mode])

\* `for x in coll: if doomed(x): coll.remove(x)` on a host collection, doomed
\* the positions of the elements to remove: the iterator steps from the element
\* just removed, whose link is freed memory; read "intact" the loop visits
\* every element, read "lost" it ends there
RemoveWhileIterating(coll, doomed, freed) ==
    IF doomed = {} THEN coll
    ELSE IF freed = "intact"
    THEN LET kept == SelectSeq(Tuple([k \in 1..Len(coll) |-> k]),
                               LAMBDA k : k \notin doomed)
         IN  Tuple([i \in 1..Len(kept) |-> coll[kept[i]]])
    ELSE LET first == CHOOSE k \in doomed : \A j \in doomed : k <= j
         IN  SubSeq(coll, 1, first - 1) \o SubSeq(coll, first + 1, Len(coll))

\* the chains of a finger mapping, one after the other
RECURSIVE ChainsOf(_, _)
ChainsOf(finger_data, n) ==
    IF n = 0 THEN <<>> ELSE ChainsOf(finger_data, n - 1) \o finger_data[n][2]

\* finger_bone_names
FingerBoneNames(inspection, side) ==
    (IF side \in {<<"L">>, BOTH}
     THEN ChainsOf(inspection.hands.left.fingers, Len(inspection.hands.left.fingers))
     ELSE <<>>)
    \o
    (IF side \in {<<"R">>, BOTH}
     THEN ChainsOf(inspection.hands.right.fingers, Len(inspection.hands.right.fingers))
     ELSE <<>>)

\* steps 1 to 3: the armature modifiers removed, the mesh unparented, mesh and
\* armature selected with the armature active
Unbound(scene, mesh_obj, armature_obj, freed_modifier) ==
    [scene EXCEPT
        !.objects[mesh_obj].modifiers =
            RemoveWhileIterating(@, {k \in 1..Len(@) : @[k].type = "ARMATURE"},
                                 freed_modifier),
        !.objects[mesh_obj].parent = None,
        !.selected = {scene.objects[mesh_obj].name, scene.objects[armature_obj].name},
        !.active = scene.objects[armature_obj].name]

\* step 5 on the scene the automatic weights left
FingerGroupsOnly(scene, mesh_obj, finger_bone_names, freed_group) ==
    [scene EXCEPT
        !.objects[mesh_obj].vertex_groups =
            RemoveWhileIterating(@,
                {k \in 1..Len(@) : @[k] \notin Range(finger_bone_names)},
                freed_group)]

\* step 6 and the result, on the scene step 5 left
Normalized(scene, entered, normalize, finger_bone_names) ==
    IF normalize /\ entered.raised THEN [scene |-> scene, result |-> entered]
    ELSE [scene |-> scene,
          result |-> Ret([status |-> "success",
                          message |-> [text |-> "Applied automatic weights for {} finger bones. WARNING: This was a destructive operation that may have altered existing weights.",
                                       args |-> <<Len(finger_bone_names)>>],
                          weighted_finger_bones |-> finger_bone_names])]

\* the destructive weighting process
Reweight(scene, mesh_obj, armature_obj, finger_bone_names, normalize, freed_modifier, freed_group) ==
    IF finger_bone_names = <<>>
    THEN [scene |-> scene,
          result |-> Ret([status |-> "skipped",
                          message |-> "No finger bones found to weight."])]
    ELSE Normalized(FingerGroupsOnly(
                        ParentSetArmatureAuto(
                            Unbound(scene, mesh_obj, armature_obj, freed_modifier)),
                        mesh_obj, finger_bone_names, freed_group),
                    ModeSet(Unbound(scene, mesh_obj, armature_obj, freed_modifier),
                            "WEIGHT_PAINT"),
                    normalize, finger_bone_names)

\* the command from the object lookups on
AutoWeightOnObjects(scene, inspection, armature_obj, mesh_obj, side, normalize, freed_modifier, freed_group) ==
    IF armature_obj = 0 \/ mesh_obj = 0
    THEN [scene |-> scene, result |-> Ret([error |-> NO_ARMATURE_OR_MESH])]
    ELSE Reweight(scene, mesh_obj, armature_obj, FingerBoneNames(inspection, side),
                  normalize, freed_modifier, freed_group)

\* the command once the inspection has returned
AutoWeightInspected(inspected, side, normalize, freed_modifier, freed_group) ==
    IF inspected.result.raised \/ "error" \in DOMAIN inspected.result.value
    THEN inspected
    ELSE IF inspected.result.value.armature_name = None
    THEN [scene |-> inspected.scene, result |-> Raise(GET_NONE)]
    ELSE AutoWeightOnObjects(inspected.scene, inspected.result.value,
                             Get(inspected.scene.objects,
                                 inspected.result.value.armature_name),
                             Get(inspected.scene.objects,
                                 inspected.result.value.mesh_name),
                             side, normalize, freed_modifier, freed_group)

\* rigging_auto_weight_fingers_only
RiggingAutoWeightFingersOnly(scene, armature_name, mesh_name, side, normalize, freed_modifier, freed_group) ==
    AutoWeightInspected(RiggingInspectHumanoidRig(scene, mesh_name, armature_name),
                        side, normalize, freed_modifier, freed_group)

CLOTH == <<"c","l","o","t","h">>

THUMB_L == <<"t","h","u","m","b","_","l">>

\* two hands with one finger bone each
SkeletonTiny ==
    <<B(<<"L","e","f","t","H","a","n","d">>, 0), B(THUMB_L, 1),
      B(<<"R","i","g","h","t","H","a","n","d">>, 0),
      B(<<"i","n","d","e","x","_","r">>, 3)>>

\* an armature with fingers, and one normalization finds no hand in
WeightSkeletons == {SkeletonTiny, SkeletonHands}

\* the vertex groups Body starts with: none, or one no bone has and one
\* named after a finger bone
WeightGroups == {<<>>, <<CLOTH, THUMB_L>>}

\* the modifier stacks Body starts with: none, one armature modifier, two
WeightModifiers ==
    {<<>>, <<ArmatureMod(Rig)>>, <<ArmatureMod(None), SubsurfMod, ArmatureMod(Rig)>>}

\* scenes for the re-binder: Body and Rig
InitWeight ==
    /\ \E o \in Orders, rb \in WeightSkeletons, bm \in WeightModifiers,
          groups \in WeightGroups :
           /\ TargetsIn(o, bm, <<>>)
           /\ Range(o) \subseteq {Body, Rig}
           /\ objects = Tuple([i \in DOMAIN o |->
                  IF o[i] = Body
                  THEN [MeshObject(Body, 3, bm) EXCEPT !.vertex_groups = groups]
                  ELSE ArmatureObject(Rig, rb)])
    /\ active = None
    /\ selected = {}
    /\ mode = "OBJECT"
    /\ last = NoCall
    /\ ServerIdle

\* the reads of freed memory
Freed == {"intact", "lost"}

AutoWeight ==
    \E armature_name \in ConsumerNames, mesh_name \in {None, Body},
       side \in {<<"L">>, <<"R">>, BOTH}, normalize \in BOOLEAN,
       freed_modifier \in Freed, freed_group \in Freed :
        Ran("auto_weight_fingers_only", <<armature_name, mesh_name, side, normalize>>,
            RiggingAutoWeightFingersOnly(Scene, armature_name, mesh_name, side,
                                         normalize, freed_modifier, freed_group))

NextWeight == AutoWeight

SpecWeight == InitWeight /\ [][NextWeight]_vars

-----------------------------------------------------------------------------
(* rigging_arp_add_or_fix_finger_rig *)

\* ensure_result.get("status", "").startswith("success")
StatusIsSuccess(value) ==
    /\ "status" \in DOMAIN value
    /\ value.status \in {"success", "success_dry_run", "success_placeholder",
                         "success_fallback"}

\* results and scene after rigging_auto_weight_fingers_only returned, or its
\* fault
ArpWeighted(results, ensure_result, weighted) ==
    [scene |-> weighted.scene,
     result |-> IF weighted.result.raised THEN weighted.result
                ELSE Ret(results \o <<ensure_result, weighted.result.value>>)]

\* one turn of the loop once rigging_ensure_finger_chains_for_hand returned
ArpEnsured(results, ensured, armature_name, mesh_name, s, freed_modifier, freed_group) ==
    IF ensured.result.raised THEN ensured
    ELSE IF StatusIsSuccess(ensured.result.value)
    THEN ArpWeighted(results, ensured.result.value,
                     RiggingAutoWeightFingersOnly(ensured.scene, armature_name,
                                                  mesh_name, s, TRUE,
                                                  freed_modifier, freed_group))
    ELSE [scene |-> ensured.scene,
          result |-> Ret(Append(results, ensured.result.value))]

\* one turn of the loop on the scene and results of the turns before
ArpTurn(before, armature_name, mesh_name, s, freed_modifier, freed_group) ==
    IF before.result.raised THEN before
    ELSE ArpEnsured(before.result.value,
                    RiggingEnsureFingerChainsForHand(before.scene, armature_name,
                                                     mesh_name, s, 3, None),
                    armature_name, mesh_name, s, freed_modifier, freed_group)

\* the loop over the first n of sides_to_process: the scene and the results,
\* or the fault of a call
RECURSIVE ArpLoop(_, _, _, _, _, _, _)
ArpLoop(scene, armature_name, mesh_name, sides_to_process, n, freed_modifier, freed_group) ==
    IF n = 0 THEN [scene |-> scene, result |-> Ret(<<>>)]
    ELSE ArpTurn(ArpLoop(scene, armature_name, mesh_name, sides_to_process, n - 1,
                         freed_modifier, freed_group),
                 armature_name, mesh_name, sides_to_process[n],
                 freed_modifier, freed_group)

\* the result of the fallback
ArpFallback(looped) ==
    IF looped.result.raised THEN looped
    ELSE [scene |-> looped.scene,
          result |-> Ret([status |-> "success_fallback",
                          message |-> "Auto-Rig Pro not found. Used fallback to create and weight finger bones.",
                          method |-> "fallback",
                          fallback_results |-> looped.result.value])]

\* rigging_arp_add_or_fix_finger_rig; arp_installed says whether
\* `import auto_rig_pro` succeeds
RiggingArpAddOrFixFingerRig(scene, armature_name, mesh_name, side, arp_installed, freed_modifier, freed_group) ==
    IF arp_installed
    THEN [scene |-> scene,
          result |-> Ret([status |-> "success_placeholder",
                          message |-> "Auto-Rig Pro detected. A full implementation would use its API to rig the fingers.",
                          method |-> "auto_rig_pro"])]
    ELSE ArpFallback(ArpLoop(scene, armature_name, mesh_name,
                             IF side = BOTH THEN <<(<<"L">>), (<<"R">>)>> ELSE <<side>>,
                             IF side = BOTH THEN 2 ELSE 1,
                             freed_modifier, freed_group))

ArpAddOrFixFingerRig ==
    \E mesh_name \in {None, Body}, side \in {<<"L">>, <<"R">>, BOTH},
       arp_installed \in BOOLEAN, freed_modifier \in Freed, freed_group \in Freed :
        Ran("arp_add_or_fix_finger_rig", <<None, mesh_name, side>>,
            RiggingArpAddOrFixFingerRig(Scene, None, mesh_name, side, arp_installed,
                                        freed_modifier, freed_group))

\* a mesh without an armature
InitCompose ==
    /\ objects = <<MeshObject(Body, 3, <<>>)>>
    /\ active = None
    /\ selected = {}
    /\ mode = "OBJECT"
    /\ last = NoCall
    /\ ServerIdle

NextCompose == AutoRig \/ ArpAddOrFixFingerRig

SpecCompose == InitCompose /\ [][NextCompose]_vars

-----------------------------------------------------------------------------
(* rigging_export_ue5_ready_fbx *)

NO_FILEPATH == "A filepath must be provided for the FBX export."

NO_CANDIDATE == "Could not auto-detect a suitable mesh and armature to export."

EXPORT_FAILED == "FBX export failed: {}"

EXPORTED == "Successfully exported '{}' and '{}' to '{}'."

\* str(e) of the fault of a failed bpy.ops.export_scene.fbx
FBX_FAULT == "Error: cannot write the file"

\* step 1, the selection, and step 2: with use_tpose the rotation of every
\* pose bone is zeroed; posed tells that some pose bone is rotated, and only
\* an armature has a pose
Selected(scene, armature_obj, mesh_obj, use_tpose) ==
    [scene EXCEPT
        !.selected = {scene.objects[armature_obj].name, scene.objects[mesh_obj].name},
        !.active = scene.objects[armature_obj].name,
        !.objects[armature_obj].posed =
            IF use_tpose /\ scene.objects[armature_obj].type = "ARMATURE"
            THEN FALSE ELSE @]

\* step 3: the host export, which completed ("done") or raised ("failed")
Exported(scene, armature_obj, mesh_obj, filepath, fbx) ==
    [scene |-> scene,
     result |-> IF fbx = "done"
                THEN Ret([status |-> "success",
                          message |-> [text |-> EXPORTED,
                                       args |-> <<scene.objects[armature_obj].name,
                                                  scene.objects[mesh_obj].name,
                                                  filepath>>],
                          filepath |-> filepath])
                ELSE Ret([error |-> [text |-> EXPORT_FAILED, args |-> <<FBX_FAULT>>]])]

\* the command from the second test of the objects on
ExportObjects(scene, armature_obj, mesh_obj, filepath, use_tpose, fbx) ==
    IF armature_obj = 0 \/ mesh_obj = 0
    THEN [scene |-> scene, result |-> Ret([error |-> NO_CANDIDATE])]
    ELSE IF scene.mode # "OBJECT"
    THEN [scene |-> scene, result |-> Raise("RuntimeError")]
    ELSE Exported(Selected(scene, armature_obj, mesh_obj, use_tpose),
                  armature_obj, mesh_obj, filepath, fbx)

\* the command from the lookups by name on
ExportNamed(scene, armature_obj, mesh_obj, filepath, use_tpose, fbx) ==
    IF armature_obj = 0 \/ mesh_obj = 0
    THEN ExportObjects(scene, FindBestHumanoidCandidate(scene.objects)[2],
                       FindBestHumanoidCandidate(scene.objects)[1],
                       filepath, use_tpose, fbx)
    ELSE ExportObjects(scene, armature_obj, mesh_obj, filepath, use_tpose, fbx)

\* rigging_export_ue5_ready_fbx
RiggingExportUe5ReadyFbx(scene, filepath, armature_name, mesh_name, use_tpose, fbx) ==
    IF filepath = <<>>
    THEN [scene |-> scene, result |-> Ret([error |-> NO_FILEPATH])]
    ELSE IF armature_name = None \/ mesh_name = None
    THEN [scene |-> scene, result |-> Raise(GET_NONE)]
    ELSE ExportNamed(scene, Get(scene.objects, armature_name),
                     Get(scene.objects, mesh_name), filepath, use_tpose, fbx)

OUT_FBX == <<"o","u","t",".","f","b","x">>

\* scenes for the exporter: Body, Rig and Rig2, the armatures posed or at rest
InitExport ==
    /\ \E o \in Orders, bm \in ConsumerModifiers, p \in BOOLEAN :
           /\ TargetsIn(o, bm, <<>>)
           /\ Range(o) \subseteq {Body, Rig, Rig2}
           /\ objects = Tuple([i \in DOMAIN o |->
                  IF o[i] = Body THEN MeshObject(Body, 3, bm)
                  ELSE [ArmatureObject(o[i], IF o[i] = Rig THEN SkeletonTiny
                                                           ELSE SkeletonEmpty)
                            EXCEPT !.posed = p]])
    /\ active = None
    /\ selected = {}
    /\ mode = "OBJECT"
    /\ last = NoCall
    /\ ServerIdle

Export ==
    \E filepath \in {<<>>, OUT_FBX}, armature_name \in {None, Rig, Ghost},
       mesh_name \in {None, Body}, use_tpose \in BOOLEAN, fbx \in {"done", "failed"} :
        Ran("export_ue5_ready_fbx", <<filepath, armature_name, mesh_name, use_tpose>>,
            RiggingExportUe5ReadyFbx(Scene, filepath, armature_name, mesh_name,
                                     use_tpose, fbx))

NextExport == Export

SpecExport == InitExport /\ [][NextExport]_vars

-----------------------------------------------------------------------------
(* BlenderMCPServer.execute_command *)

\* the parameters of the handlers without a default
Required(cmd_type) ==
    IF cmd_type = "rigging_export_ue5_ready_fbx" THEN {"filepath"} ELSE {}

\* the defaults of the other parameters of the handlers
Defaults(cmd_type) ==
    IF cmd_type = "rigging_inspect_humanoid_rig"
    THEN [mesh_name |-> None, armature_name |-> None, origin_hint |-> <<"a","u","t","o">>]
    ELSE IF cmd_type = "rigging_auto_weight_fingers_only"
    THEN [armature_name |-> None, mesh_name |-> None, side |-> BOTH, normalize |-> TRUE]
    ELSE IF cmd_type = "rigging_rename_fingers_to_ue5"
    THEN [armature_name |-> None, side |-> BOTH, include_body |-> FALSE, dry_run |-> TRUE]
    ELSE [armature_name |-> None, mesh_name |-> None, apply_scale |-> 1,
          use_tpose |-> TRUE, export_animations |-> FALSE]

\* the handlers of the inspector, the re-binder, the renamer and the exporter
Handlers ==
    {"rigging_inspect_humanoid_rig", "rigging_auto_weight_fingers_only",
     "rigging_rename_fingers_to_ue5", "rigging_export_ue5_ready_fbx"}

\* handler(**kw) for keyword arguments bound to the parameters
Handle(scene, cmd_type, kw, freed_modifier, freed_group, fbx) ==
    IF cmd_type = "rigging_inspect_humanoid_rig"
    THEN RiggingInspectHumanoidRig(scene, kw.mesh_name, kw.armature_name)
    ELSE IF cmd_type = "rigging_auto_weight_fingers_only"
    THEN RiggingAutoWeightFingersOnly(scene, kw.armature_name, kw.mesh_name, kw.side,
                                      kw.normalize, freed_modifier, freed_group)
    ELSE IF cmd_type = "rigging_rename_fingers_to_ue5"
    THEN RiggingRenameFingersToUe5(scene, kw.armature_name, kw.side, kw.include_body,
                                   kw.dry_run)
    ELSE RiggingExportUe5ReadyFbx(scene, kw.filepath, kw.armature_name, kw.mesh_name,
                                  kw.use_tpose, fbx)

\* handler(**params): TypeError when params is no mapping, has a key that is
\* no parameter, or lacks a parameter without default
CallHandler(scene, cmd_type, params, freed_modifier, freed_group, fbx) ==
    IF ~params.mapping
       \/ ~(DOMAIN params.items \subseteq
                 DOMAIN Defaults(cmd_type) \cup Required(cmd_type))
       \/ ~(Required(cmd_type) \subseteq DOMAIN params.items)
    THEN [scene |-> scene, result |-> Raise("TypeError")]
    ELSE Handle(scene, cmd_type, params.items @@ Defaults(cmd_type),
                freed_modifier, freed_group, fbx)

\* the try statement around the handler
Handled(called) ==
    [scene |-> called.scene,
     result |-> IF called.result.raised
                THEN Ret([status |-> "error", message |-> called.result.exc])
                ELSE Ret([status |-> "success", result |-> called.result.value])]

UNKNOWN_COMMAND == "Unknown command type: {}"

\* _execute_command_internal
ExecuteCommandInternal(scene, command, freed_modifier, freed_group, fbx) ==
    IF ~command.mapping THEN [scene |-> scene, result |-> Raise("AttributeError")]
    ELSE IF command.type \in Handlers
    THEN Handled(CallHandler(scene, command.type, command.params,
                             freed_modifier, freed_group, fbx))
    ELSE [scene |-> scene,
          result |-> Ret([status |-> "error",
                          message |-> [text |-> UNKNOWN_COMMAND,
                                       args |-> <<command.type>>]])]

\* the except clause of execute_command
Caught(executed) ==
    IF executed.result.raised
    THEN [scene |-> executed.scene,
          result |-> Ret([status |-> "error", message |-> executed.result.exc])]
    ELSE executed

\* execute_command without its try statement
ExecuteCommandUnguarded(scene, command, freed_modifier, freed_group, fbx) ==
    ExecuteCommandInternal(scene, command, freed_modifier, freed_group, fbx)

\* execute_command
ExecuteCommand(scene, command, freed_modifier, freed_group, fbx) ==
    Caught(ExecuteCommandInternal(scene, command, freed_modifier, freed_group, fbx))

\* a command mapping, its params a mapping
Command(type, items) ==
    [mapping |-> TRUE, type |-> type, params |-> [mapping |-> TRUE, items |-> items]]

NoItems == [k \in {} |-> None]

\* the requests: one that is no mapping, an unknown type, params that are no
\* mapping, an unknown parameter, a missing parameter, and calls of the four
\* handlers
Commands ==
    <<[mapping |-> FALSE, type |-> "", params |-> [mapping |-> TRUE, items |-> NoItems]],
      Command("rigging_unknown", NoItems),
      [mapping |-> TRUE, type |-> "rigging_inspect_humanoid_rig",
       params |-> [mapping |-> FALSE, items |-> NoItems]],
      Command("rigging_inspect_humanoid_rig", [bogus |-> TRUE]),
      Command("rigging_inspect_humanoid_rig", NoItems),
      Command("rigging_export_ue5_ready_fbx", NoItems),
      Command("rigging_export_ue5_ready_fbx", [filepath |-> OUT_FBX]),
      Command("rigging_export_ue5_ready_fbx",
              [filepath |-> OUT_FBX, armature_name |-> Rig, mesh_name |-> Body]),
      Command("rigging_rename_fingers_to_ue5", NoItems),
      Command("rigging_auto_weight_fingers_only", NoItems),
      Command("rigging_auto_weight_fingers_only", [normalize |-> FALSE])>>

\* scenes for the server: Body and Rig
InitServer ==
    /\ \E o \in Orders, bm \in ConsumerModifiers :
           /\ TargetsIn(o, bm, <<>>)
           /\ Range(o) \subseteq {Body, Rig}
           /\ objects = Tuple([i \in DOMAIN o |->
                  IF o[i] = Body THEN MeshObject(Body, 3, bm)
                  ELSE [ArmatureObject(Rig, SkeletonTiny) EXCEPT !.posed = TRUE]])
    /\ active = None
    /\ selected = {}
    /\ mode = "OBJECT"
    /\ last = NoCall
    /\ ServerIdle

Execute ==
    \E k \in 1..Len(Commands), freed_modifier \in Freed, freed_group \in Freed,
       fbx \in {"done", "failed"} :
        Ran("execute_command", <<Commands[k]>>,
            ExecuteCommand(Scene, Commands[k], freed_modifier, freed_group, fbx))

NextServer == Execute

SpecServer == InitServer /\ [][NextServer]_vars

-----------------------------------------------------------------------------
(* BlenderMCPServer._server_loop, _handle_client, execute_wrapper *)

MaxClients == 2

\* the requests clients send in all
MaxRequests == 2

Clients == 1..MaxClients

\* the commands clients ask for
Requests ==
    <<Command("rigging_unknown", NoItems),
      Command("rigging_export_ue5_ready_fbx",
              [filepath |-> OUT_FBX, armature_name |-> Rig, mesh_name |-> Body])>>

\* the JSON text of request r, as the two pieces a stream can deliver it in
Encode(r) == <<[request |-> r, piece |-> 1], [request |-> r, piece |-> 2]>>

\* json.loads(buffer.decode('utf-8')): the request when the buffer holds the
\* text of exactly one, JSONDecodeError when the text is incomplete or is
\* followed by more
JsonLoads(buffer) ==
    IF \E r \in 1..Len(Requests) : buffer = Encode(r)
    THEN Ret(CHOOSE r \in 1..Len(Requests) : buffer = Encode(r))
    ELSE Raise("JSONDecodeError")

\* a connection before accept(): command is the variable of _handle_client
\* that execute_wrapper closes over, 0 while unassigned
NoConnection ==
    [accepted |-> FALSE, stream |-> <<>>, buffer |-> <<>>, command |-> 0,
     sent |-> <<>>, responses |-> <<>>]

\* the requests sent so far, over all clients
RECURSIVE SentInAll(_, _)
SentInAll(c, n) == IF n = 0 THEN 0 ELSE Len(c[n].sent) + SentInAll(c, n - 1)

\* _server_loop: accept() and the start of the client thread
Accept(c) ==
    /\ ~conn[c].accepted
    /\ conn' = [conn EXCEPT ![c].accepted = TRUE]
    /\ UNCHANGED <<objects, active, selected, mode, last, timers, executing>>

\* the client writes the text of a request to its socket
ClientSend(c) ==
    /\ conn[c].accepted
    /\ SentInAll(conn, MaxClients) < MaxRequests
    /\ \E r \in 1..Len(Requests) :
           conn' = [conn EXCEPT ![c].stream = @ \o Encode(r),
                                ![c].sent = Append(@, r)]
    /\ UNCHANGED <<objects, active, selected, mode, last, timers, executing>>

\* execute_command called from the thread of client c itself
CalledInThread(tm, ex, c, command) ==
    [timers |-> tm,
     executing |-> ex \cup {[thread |-> c, client |-> c, command |-> command]}]

\* bpy.app.timers.register(execute_wrapper) from the thread of client c
Registered(tm, ex, c, command) ==
    [timers |-> Append(tm, [client |-> c]), executing |-> ex]

\* the body of the while loop once recv() returned data
Received(c, data) ==
    LET parsed == JsonLoads(conn[c].buffer \o data)
        reg == Registered(timers, executing, c, parsed.value)
    IN  /\ IF parsed.raised
           THEN /\ conn' = [conn EXCEPT ![c].stream = SubSeq(@, Len(data) + 1, Len(@)),
                                        ![c].buffer = @ \o data]
                /\ UNCHANGED <<timers, executing>>
           ELSE /\ conn' = [conn EXCEPT ![c].stream = SubSeq(@, Len(data) + 1, Len(@)),
                                        ![c].buffer = <<>>,
                                        ![c].command = parsed.value]
                /\ timers' = reg.timers
                /\ executing' = reg.executing
        /\ UNCHANGED <<objects, active, selected, mode, last>>

\* _handle_client: one turn of the loop, recv() returning some of the bytes
\* that have arrived
Recv(c) ==
    /\ conn[c].accepted
    /\ conn[c].stream # <<>>
    /\ \E n \in 1..Len(conn[c].stream) : Received(c, SubSeq(conn[c].stream, 1, n))

\* the main thread (thread 0) calls the oldest registered execute_wrapper,
\* which reads command and enters execute_command; the main thread calls one
\* function at a time
TimerStart ==
    /\ timers # <<>>
    /\ executing = {}
    /\ executing' = {[thread |-> 0, client |-> timers[1].client,
                      command |-> conn[timers[1].client].command]}
    /\ timers' = Tail(timers)
    /\ UNCHANGED <<objects, active, selected, mode, last, conn>>

\* the scene and the response after execute_command and sendall()
Responded(e, out) ==
    /\ Called("execute_command", <<Requests[e.command]>>, out)
    /\ conn' = [conn EXCEPT ![e.client].responses =
                    Append(@, [request |-> e.command, response |-> out.result.value])]

\* execute_command returns and execute_wrapper sends the response; the
\* requests of these clients reach no read of freed memory
TimerEnd ==
    \E e \in executing, fbx \in {"done", "failed"} :
        /\ Responded(e, ExecuteCommand(Scene, Requests[e.command],
                                       "intact", "intact", fbx))
        /\ executing' = executing \ {e}
        /\ UNCHANGED timers

\* a server with no connection yet, on a scene with Body bound to Rig
InitNet ==
    /\ objects = <<MeshObject(Body, 3, <<ArmatureMod(Rig)>>),
                   ArmatureObject(Rig, SkeletonTiny)>>
    /\ active = None
    /\ selected = {}
    /\ mode = "OBJECT"
    /\ last = NoCall
    /\ conn = [c \in Clients |-> NoConnection]
    /\ timers = <<>>
    /\ executing = {}

NextNet ==
    \/ \E c \in Clients : Accept(c)
    \/ \E c \in Clients : ClientSend(c)
    \/ \E c \in Clients : Recv(c)
    \/ TimerStart
    \/ TimerEnd

SpecNet == InitNet /\ [][NextNet]_vars

\* the client threads and the main thread keep running
FairNet ==
    /\ \A c \in Clients : WF_vars(Accept(c)) /\ WF_vars(Recv(c))
    /\ WF_vars(TimerStart)
    /\ WF_vars(TimerEnd)

SpecNetLive == SpecNet /\ FairNet

-----------------------------------------------------------------------------
(* Properties *)

IsInspect == last.cmd = "inspect_humanoid_rig"

\* the last call returned a mapping that is not an error
Succeeded == ~last.result.raised /\ "error" \notin DOMAIN last.result.value

Returned == last.result.value

BoneNames(bones) == {bones[i].name : i \in 1..Len(bones)}

\* the bones of the armature a returned mapping names
ArmatureBones(mapping) == objects[Get(objects, mapping.armature_name)].bones

RigTypeFor(h, n) ==
    IF h > 5 THEN "mixamo" ELSE IF n > 10 THEN "generic_humanoid" ELSE "unknown"

\* C1: detect_rig_type is total: None gives mesh_only; an armature with h
\* mixamo-prefixed bones (in any letter case) among n bones gives mixamo if
\* h > 5, else generic_humanoid if n > 10, else unknown.
C1_DetectRigTypeRule ==
    last.cmd = "detect_rig_type" =>
        /\ ~last.result.raised
        /\ last.args[1] = 0 => Returned = "mesh_only"
        /\ last.args[1] # 0 =>
               \E h \in 0..Len(objects[1].bones) :
                   /\ objects[1].bones = CountedBones(h, Len(objects[1].bones) - h)
                   /\ Returned = RigTypeFor(h, Len(objects[1].bones))

\* exactly 5 hits among exactly 10 bones are classified unknown
C1_Witness ==
    /\ last.cmd = "detect_rig_type"
    /\ last.args[1] # 0
    /\ objects[1].bones = CountedBones(5, 5)
    /\ Returned = "unknown"

\* C2: an inspection that is not an error reports mesh_only exactly when no
\* armature was resolved and the mesh has no armature modifier with a target,
\* then without armature_name; any other rig_type names an armature of the scene.
C2_MeshOnlyIffNoArmature ==
    (IsInspect /\ Succeeded) =>
        LET r == Resolve(objects, last.args[1], last.args[2])
            mods == objects[r[1]].modifiers
            none == /\ r[2] = 0
                    /\ \A k \in 1..Len(mods) :
                           ~(mods[k].type = "ARMATURE" /\ mods[k].object # None)
        IN  /\ (Returned.rig_type = "mesh_only") <=> none
            /\ Returned.rig_type = "mesh_only" => Returned.armature_name = None
            /\ Returned.rig_type # "mesh_only" =>
                   /\ Returned.rig_type \in {"mixamo", "generic_humanoid", "unknown"}
                   /\ \E i \in 1..Len(objects) :
                          /\ objects[i].type = "ARMATURE"
                          /\ objects[i].name = Returned.armature_name

\* the armature was taken from the mesh's modifier, behind one without a target
C2_Witness ==
    /\ IsInspect /\ Succeeded
    /\ last.args = <<Body, None>>
    /\ Returned.rig_type = "unknown"
    /\ Returned.armature_name = Rig2

\* C3: every role of bones that is set, and every name in every finger chain,
\* is the name of a bone of the armature the inspection names.
C3_ReferencedBonesExist ==
    (IsInspect /\ Succeeded /\ Returned.armature_name # None) =>
        LET names == BoneNames(ArmatureBones(Returned))
            roles == Returned.structure.bones
        IN  /\ \A role \in DOMAIN roles : roles[role] # None => roles[role] \in names
            /\ \A side \in {"left", "right"} :
                   LET fingers == Returned.hands[side].fingers
                   IN  \A i \in 1..Len(fingers) :
                           \A k \in 1..Len(fingers[i][2]) : fingers[i][2][k] \in names

C3_Witness ==
    /\ IsInspect /\ Succeeded
    /\ Returned.structure.bones.hips # None
    /\ Returned.structure.bones.hips # KEY_HIPS
    /\ Returned.hands.left.fingers # <<>>

\* C4: an inspection leaves objects, active object, selection and mode as they
\* were, and repeating the call just made returns the same mapping.
C4_InspectIsReadOnly ==
    [][last'.cmd = "inspect_humanoid_rig" =>
          /\ objects' = objects
          /\ active' = active
          /\ selected' = selected
          /\ mode' = mode
          /\ (last'.again => last'.result = last.result)]_vars

C4_Witness ==
    /\ IsInspect /\ Succeeded
    /\ last.again
    /\ Returned.rig_type = "generic_humanoid"

\* C5: an inspection given only the name of an existing armature returns the
\* description of that armature, not an error.
C5_ArmatureAloneInspects ==
    (/\ IsInspect
     /\ last.args[1] = None
     /\ Get(objects, last.args[2]) # 0
     /\ objects[Get(objects, last.args[2])].type = "ARMATURE") =>
        /\ Succeeded
        /\ Returned.armature_name = last.args[2]
        /\ Returned.rig_type = RigTypeOfBones(ArmatureBones(Returned))

\* the key the roles are looked up by: lower case, without '_', '-' and ' ',
\* the part after the last ':'
RoleKey(name) ==
    LET low == Lower(name)
        kept == SelectSeq(low, LAMBDA c : c \notin {"_", "-", " "})
        colons == {i \in 1..Len(kept) : kept[i] = ":"}
    IN  IF colons = {} THEN kept ELSE SubSeq(kept, SetMax(colons) + 1, Len(kept))

\* C7: for every inspected armature, of any rig_type and by either copy of the
\* normalizer, each role is the name of a bone whose key is the role's key,
\* and is absent exactly when no bone has that key.
C7_RolesByKey ==
    (/\ last.cmd \in {"inspect_humanoid_rig", "lib_inspect_humanoid_rig"}
     /\ Succeeded
     /\ Returned.armature_name # None) =>
        LET bones == ArmatureBones(Returned)
            RoleOk(role, key) ==
                LET v == Returned.structure.bones[role]
                IN  /\ (v = None) <=> ~\E i \in 1..Len(bones) : RoleKey(bones[i].name) = key
                    /\ v # None => v \in BoneNames(bones) /\ RoleKey(v) = key
        IN  /\ RoleOk("hips", KEY_HIPS)
            /\ RoleOk("head", KEY_HEAD)
            /\ RoleOk("hand_l", KEY_LEFTHAND)
            /\ RoleOk("hand_r", KEY_RIGHTHAND)

\* the first label, in the fixed order, that the lower-cased name contains
FirstLabel(name) ==
    IF \E k \in 1..Len(FINGERS) : Contains(FINGERS[k], Lower(name))
    THEN FINGERS[CHOOSE k \in 1..Len(FINGERS) :
                    /\ Contains(FINGERS[k], Lower(name))
                    /\ \A j \in 1..(k - 1) : ~Contains(FINGERS[j], Lower(name))]
    ELSE None

\* bone j lies below bone c
RECURSIVE Below(_, _, _)
Below(bones, j, c) ==
    /\ bones[j].parent # 0
    /\ (bones[j].parent = c \/ Below(bones, bones[j].parent, c))

\* chain is the name of c followed by the names of all bones below c, once each
IsChainOf(bones, chain, c) ==
    LET below == {j \in 1..Len(bones) : Below(bones, j, c)}
    IN  /\ Len(chain) = 1 + Cardinality(below)
        /\ chain[1] = bones[c].name
        /\ {chain[k] : k \in 2..Len(chain)} = {bones[j].name : j \in below}

\* the direct children of the hand bone of a side, as a set of bone indices
HandChildren(bones, mapping, side) ==
    LET hand == BoneGet(bones, mapping.hands[side].hand_bone)
    IN  {j \in 1..Len(bones) : bones[j].parent = hand}

\* the fingers of a side hold exactly the labels some child of the hand matches
LabelsOk(bones, mapping, side) ==
    LET fingers == mapping.hands[side].fingers
        kids == HandChildren(bones, mapping, side)
    IN  /\ DictKeys(fingers) = {FirstLabel(bones[c].name) : c \in kids} \ {None}
        /\ Len(fingers) = Cardinality(DictKeys(fingers))
        /\ \A i \in 1..Len(fingers) : fingers[i][2] # <<>>

\* C8 as stated: every child of a resolved hand that contains a label is
\* recorded under its first label with the chain of that child and all its
\* descendants; other children are ignored; only matched labels appear.
C8_EveryFingerChildRecorded ==
    (IsInspect /\ Succeeded /\ Returned.armature_name # None) =>
        LET bones == ArmatureBones(Returned)
        IN  \A side \in {"left", "right"} :
                IF Returned.hands[side].hand_bone = None
                THEN Returned.hands[side].fingers = <<>>
                ELSE /\ LabelsOk(bones, Returned, side)
                     /\ \A c \in HandChildren(bones, Returned, side) :
                            FirstLabel(bones[c].name) # None =>
                                IsChainOf(bones,
                                          DictGet(Returned.hands[side].fingers,
                                                  FirstLabel(bones[c].name)),
                                          c)

\* C8 amended: each label matched by some child of a resolved hand is recorded
\* with the chain of the last child, in child order, whose first label it is.
C8_LastFingerChildRecorded ==
    (IsInspect /\ Succeeded /\ Returned.armature_name # None) =>
        LET bones == ArmatureBones(Returned)
        IN  \A side \in {"left", "right"} :
                IF Returned.hands[side].hand_bone = None
                THEN Returned.hands[side].fingers = <<>>
                ELSE /\ LabelsOk(bones, Returned, side)
                     /\ \A c \in HandChildren(bones, Returned, side) :
                            (/\ FirstLabel(bones[c].name) # None
                             /\ \A d \in HandChildren(bones, Returned, side) :
                                    FirstLabel(bones[d].name) = FirstLabel(bones[c].name)
                                        => d <= c) =>
                                IsChainOf(bones,
                                          DictGet(Returned.hands[side].fingers,
                                                  FirstLabel(bones[c].name)),
                                          c)

\* a right hand with two thumb children and a pinky that branches
C8_Witness ==
    /\ IsInspect /\ Succeeded
    /\ Returned.armature_name = Rig
    /\ ArmatureBones(Returned) = SkeletonGeneric
    /\ DictKeys(Returned.hands.right.fingers) = {THUMB, PINKY}
    /\ Len(DictGet(Returned.hands.right.fingers, PINKY)) = 3

\* the armature C9 describes: the first one with the greatest bone count
ClaimedArmature(objs) ==
    LET arms == {i \in 1..Len(objs) : objs[i].type = "ARMATURE"}
    IN  IF arms = {} THEN 0
        ELSE CHOOSE i \in arms :
                 /\ \A j \in arms : j < i => Len(objs[j].bones) < Len(objs[i].bones)
                 /\ \A j \in arms : j > i => Len(objs[j].bones) <= Len(objs[i].bones)

\* the meshes C9 allows for that armature
ClaimedMeshes(objs, a) ==
    LET meshes == {i \in 1..Len(objs) : objs[i].type = "MESH"}
        using == {i \in meshes : a # 0 /\ UsesArmature(objs, i, a)}
    IN  IF using # {} THEN {CHOOSE i \in using : \A j \in using : i <= j}
        ELSE IF meshes = {} THEN {0}
        ELSE {i \in meshes : \A j \in meshes : objs[j].verts <= objs[i].verts}

\* every mesh has vertices and every armature has bones
NoEmptyObject(objs) ==
    \A i \in 1..Len(objs) :
        IF objs[i].type = "MESH" THEN objs[i].verts > 0 ELSE Len(objs[i].bones) > 0

\* C9: the selector returns the first armature with the greatest bone count,
\* and the first mesh bound to it or else a mesh with the greatest vertex count
\* (stated for scenes without empty meshes or armatures).
C9_SelectorAsDescribed ==
    (last.cmd = "find_best_humanoid_candidate" /\ NoEmptyObject(objects)) =>
        /\ Returned[2] = ClaimedArmature(objects)
        /\ Returned[1] \in ClaimedMeshes(objects, ClaimedArmature(objects))

IsAutoRig == last.cmd = "auto_rig_meshy_character"

\* the armatures the fallback made for the mesh named m
SynthesizedFor(objs, m) ==
    {i \in 1..Len(objs) :
        objs[i].type = "ARMATURE" /\ StartsWith(objs[i].name, m \o RIG_SUFFIX)}

\* C10: whenever normalization of the target mesh reports a rig_type other than
\* mesh_only, auto_rig returns status skipped with that inspection as details
\* and leaves objects, bones, parents, modifiers, selection and mode as they
\* were; and an auto_rig on a mesh that the previous auto_rig gave a fallback
\* rig is skipped, the scene holding exactly one armature synthesized for it.
C10_AutoRigSkipsRigged ==
    [][last'.cmd = "auto_rig_meshy_character" =>
        LET t == TargetMesh(objects, last'.args[1])
        IN  t # 0 =>
            LET insp == InspectHumanoidRig(objects, objects[t].name, None)
                rigged == /\ ~insp.raised
                          /\ "rig_type" \in DOMAIN insp.value
                          /\ insp.value.rig_type # "mesh_only"
                resynth == /\ IsAutoRig
                           /\ ~last.result.raised
                           /\ "status" \in DOMAIN last.result.value
                           /\ last.result.value.status = "success"
                           /\ objects[t].parent = last.result.value.armature_name
                skipped == /\ ~last'.result.raised
                           /\ "status" \in DOMAIN last'.result.value
                           /\ last'.result.value.status = "skipped"
            IN  /\ rigged => /\ skipped
                             /\ last'.result.value.details = insp.value
                             /\ UNCHANGED <<objects, active, selected, mode>>
                /\ resynth => /\ skipped
                              /\ Cardinality(SynthesizedFor(objects', objects[t].name)) = 1
    ]_vars

\* an auto_rig on Body, which an earlier auto_rig rigged, was skipped
C10_Witness ==
    /\ IsAutoRig
    /\ ~last.result.raised
    /\ "status" \in DOMAIN last.result.value
    /\ last.result.value.status = "skipped"
    /\ last.result.value.details.armature_name = Body \o RIG_SUFFIX
    /\ Cardinality(SynthesizedFor(objects, Body)) = 1

\* the field names of the data model
DataModelFields ==
    {"rig_type", "armature_name", "mesh_name", "mesh_info", "bones", "bone_chains",
     "fingers_l", "fingers_r"}

IsConsumer == last.cmd \in {"ensure_finger_chains_for_hand", "rename_fingers_to_ue5"}

\* C6: when a command that reads the inspection result has run, the mapping
\* to_dict() returns for the scene has exactly the field names of the data
\* model, and the command did not fail on a key the mapping does not have.
C6_FieldNamesAndLookups ==
    IsConsumer =>
        /\ LET r == InspectHumanoidRig(objects, None, None)
           IN  (~r.raised /\ "error" \notin DOMAIN r.value) =>
                   DOMAIN r.value = DataModelFields
        /\ ~(last.result.raised
             /\ last.result.exc \in {"KeyError: 'l'", "KeyError: 'r'"})

IsEnsure == last.cmd = "ensure_finger_chains_for_hand"

\* the last call returned a mapping with this status
HasStatus(call, status) ==
    /\ ~call.result.raised
    /\ "status" \in DOMAIN call.result.value
    /\ call.result.value.status = status

\* the finger labels a call of ensure_finger_chains asked for
Requested(call) == IF call.args[5] = None THEN FINGERS ELSE call.args[5]

\* C11: when ensure_finger_chains succeeded and is called again with the same
\* inputs, the second call succeeds, reports existed for every requested
\* finger, and leaves the bones of every armature as the first call left them.
C11_EnsureIsIdempotent ==
    [][(IsEnsure /\ HasStatus(last, "success")
        /\ last'.cmd = "ensure_finger_chains_for_hand" /\ last'.args = last.args) =>
           /\ HasStatus(last', "success")
           /\ \A k \in 1..Len(Requested(last')) :
                  DictGet(last'.result.value.finger_status, Requested(last')[k])
                      = "existed"
           /\ objects' = objects
    ]_vars

\* as C11, for calls that ask for at least one segment
C11_IdempotentWithSegments ==
    [][(IsEnsure /\ HasStatus(last, "success") /\ last.args[4] >= 1
        /\ last'.cmd = "ensure_finger_chains_for_hand" /\ last'.args = last.args) =>
           /\ HasStatus(last', "success")
           /\ \A k \in 1..Len(Requested(last')) :
                  DictGet(last'.result.value.finger_status, Requested(last')[k])
                      = "existed"
           /\ objects' = objects
    ]_vars

\* the hand bone normalization resolved for a side, L or R
NormalizedHand(inspection, side) ==
    IF Lower(side) = <<"l">> THEN inspection.hands.left.hand_bone
    ELSE inspection.hands.right.hand_bone

\* C12: when the inspection ensure_finger_chains makes succeeds and names an
\* armature, the command proceeds and returns a status for every requested
\* finger if the armature has the bone hand.<side> or normalization resolved a
\* hand bone for the side, and returns the 'could not find hand bone' error
\* only when neither resolves.
C12_HandBoneInTwoSteps ==
    [][last'.cmd = "ensure_finger_chains_for_hand" =>
        LET insp == InspectHumanoidRig(objects, last'.args[2], last'.args[1])
            side == last'.args[3]
        IN  (~insp.raised /\ "error" \notin DOMAIN insp.value
             /\ insp.value.armature_name # None) =>
                LET bones == objects[Get(objects, insp.value.armature_name)].bones
                    literal == BoneGet(bones, HAND \o <<".">> \o Lower(side)) # 0
                    normalized == NormalizedHand(insp.value, side) # None
                IN  IF literal \/ normalized
                    THEN /\ HasStatus(last', "success")
                         /\ \A k \in 1..Len(Requested(last')) :
                                DictHas(last'.result.value.finger_status,
                                        Requested(last')[k])
                    ELSE /\ ~last'.result.raised
                         /\ "error" \in DOMAIN last'.result.value
                         /\ last'.result.value.error = NO_HAND_BONE
    ]_vars

\* <finger>_<i>.<side lower-case>
SegmentName(finger, i, side) == finger \o <<"_">> \o Str(i) \o <<".">> \o Lower(side)

\* the requested labels that no child of the hand bone starts with
Missing(bones, hand, call) ==
    {k \in 1..Len(Requested(call)) :
        ~\E j \in 1..Len(bones) :
            /\ bones[j].parent = hand
            /\ StartsWith(Lower(bones[j].name), Requested(call)[k])}

\* what C13 asks of one successful call: old and new are the bones of the
\* armature before and after it, status the finger_status it returned
ChainsCreated(old, new, hand, missing, labels, side, n, status) ==
    /\ hand # 0
    /\ Len(new) = Len(old) + n * Cardinality({labels[k] : k \in missing})
    /\ SubSeq(new, 1, Len(old)) = old
    /\ \A k \in 1..Len(labels) :
           DictGet(status, labels[k]) = IF k \in missing THEN "created" ELSE "existed"
    /\ \A k \in missing : \A i \in 1..n :
           \E j \in (Len(old) + 1)..Len(new) :
               /\ new[j].name = SegmentName(labels[k], i, side)
               /\ new[j].parent =
                      IF i = 1 THEN hand
                      ELSE BoneGet(new, SegmentName(labels[k], i - 1, side))

\* C13: a successful ensure_finger_chains creates, for each requested label
\* that no child of the hand bone starts with, exactly finger_segments bones
\* named <finger>_<i>.<side>, the first a child of the hand bone and each next
\* one a child of the previous one, and reports created; for every other
\* requested label it reports existed; it creates nothing else and leaves
\* every existing bone as it was.
C13_CreatesMissingChains ==
    [][(last'.cmd = "ensure_finger_chains_for_hand" /\ HasStatus(last', "success")) =>
        \A a \in {Get(objects, last'.result.value.armature_name)} :
        \A hand \in {BoneGet(objects[a].bones, HAND \o <<".">> \o Lower(last'.args[3]))} :
        \A missing \in {Missing(objects[a].bones, hand, last')} :
            /\ ChainsCreated(objects[a].bones, objects'[a].bones, hand, missing,
                             Requested(last'), last'.args[3], last'.args[4],
                             last'.result.value.finger_status)
            /\ \A b \in 1..Len(objects) : b # a => objects'[b] = objects[b]
    ]_vars

\* ensure_finger_chains created the two thumb bones of the left hand
C13_Witness ==
    /\ IsEnsure
    /\ HasStatus(last, "success")
    /\ last.args[3] = <<"L">>
    /\ last.args[4] = 2
    /\ DictGet(last.result.value.finger_status, THUMB) = "created"
    /\ \E a \in 1..Len(objects) :
           /\ objects[a].name = last.result.value.armature_name
           /\ BoneGet(objects[a].bones, SegmentName(THUMB, 2, <<"L">>)) # 0

IsAutoWeight == last.cmd = "auto_weight_fingers_only"

\* the vertex groups of the one mesh of the re-binder's scenes
BodyGroups == objects[Get(objects, Body)].vertex_groups

C14_Witness ==
    /\ IsAutoWeight /\ HasStatus(last, "success")
    /\ BodyGroups = last.result.value.weighted_finger_bones
    /\ BodyGroups # <<>>

IsRename == last.cmd = "rename_fingers_to_ue5"

\* the bone names of every object, in order
AllBoneNames(objs) == [i \in 1..Len(objs) |-> [b \in 1..Len(objs[i].bones) |-> objs[i].bones[b].name]]

\* C15: a rename_fingers_to_ue5 call with dry_run true leaves the bone names
\* of every armature as they were, for every side and include_body, whether
\* the call returns a mapping or fails
C15_DryRunKeepsBoneNames ==
    [][(last'.cmd = "rename_fingers_to_ue5" /\ last'.args[4])
           => AllBoneNames(objects') = AllBoneNames(objects)]_vars

\* a dry run has ended on an armature whose fingers would be renamed
C15_Witness ==
    /\ IsRename /\ last.args[4]
    /\ last.args[1] = None
    /\ \E i \in 1..Len(objects) :
           /\ objects[i].type = "ARMATURE"
           /\ <<"T","h","u","m","b",".","R">> \in BoneNames(objects[i].bones)
           /\ objects[i].bones = SkeletonGeneric
    /\ (last.result.raised \/ "error" \notin DOMAIN last.result.value)

\* the names claimed for the bones of the finger chains of one hand
ClaimedRenames(finger_data, letter) ==
    UNION {{<<finger_data[f][2][i], finger_data[f][1] \o <<"_">> \o Digits(i) \o <<"_">> \o letter>> : i \in 1..Len(finger_data[f][2])} : f \in 1..Len(finger_data)}

\* the proposal claimed for an inspection and a side: an entry for each bone
\* of each chain of a processed hand whose name is not the claimed one already
ClaimedProposal(inspection, side) ==
    {m \in (IF side \in {<<"L">>, BOTH}
            THEN ClaimedRenames(inspection.hands.left.fingers, <<"l">>)
            ELSE {})
           \cup
           (IF side \in {<<"R">>, BOTH}
            THEN ClaimedRenames(inspection.hands.right.fingers, <<"r">>)
            ELSE {}) : m[1] # m[2]}

\* the inspection the renamer starts from succeeded and reports a finger chain
ReportsFingers(inspected) ==
    /\ ~inspected.raised
    /\ "error" \notin DOMAIN inspected.value
    /\ inspected.value.hands.left.fingers \o inspected.value.hands.right.fingers # <<>>

\* C16: when the inspection of the armature succeeds and reports finger
\* chains, a dry run of rename_fingers_to_ue5 returns success_dry_run with a
\* proposed mapping holding, for each processed side and each bone at position
\* i of each finger chain, current name -> <finger>_<i, two digits>_<l|r>,
\* exactly for the bones not named so already
C16_DryRunProposesTargetNames ==
    [][(last'.cmd = "rename_fingers_to_ue5" /\ last'.args[4])
           => \A inspected \in {InspectHumanoidRig(objects, None, last'.args[1])} :
                  ReportsFingers(inspected)
                      => /\ HasStatus(last', "success_dry_run")
                         /\ Range(last'.result.value.proposed_mappings)
                                = ClaimedProposal(inspected.value, last'.args[2])]_vars

\* the mapping the renamer proposes when the hands are read by their field
\* names
ProposalOf(inspection, side) ==
    LET left == IF side \in {<<"L">>, BOTH} THEN inspection.hands.left.fingers ELSE <<>>
        right == IF side \in {<<"R">>, BOTH} THEN inspection.hands.right.fingers ELSE <<>>
    IN  FingerMappings(FingerMappings(<<>>, left, <<"l">>, Len(left)),
                       right, <<"r">>, Len(right))

\* the bones of an armature and the applied mapping are those of a loop that
\* applies each proposed rename iff the old bone exists and the target is free
AppliedAsClaimed(old, new, proposed, call) ==
    /\ HasStatus(call, "success")
    /\ new = RenameLoop(old, proposed, Len(proposed)).bones
    /\ call.result.value.applied_mappings
           = RenameLoop(old, proposed, Len(proposed)).applied_mappings
    /\ \A i, j \in 1..Len(new) : new[i].name = new[j].name => i = j

\* C17: with dry_run false on an armature whose inspection reports finger
\* chains, each proposed rename is applied iff, when it is processed, the old
\* bone exists and no bone has the target name; a colliding rename is skipped
\* and the others still applied; the applied mapping returned is the renames
\* performed; bone names stay unique
C17_AppliesFreeRenames ==
    [][(last'.cmd = "rename_fingers_to_ue5" /\ ~last'.args[4])
           => \A inspected \in {InspectHumanoidRig(objects, None, last'.args[1])} :
                  ReportsFingers(inspected)
                      => \A a \in {Get(objects, inspected.value.armature_name)} :
                             AppliedAsClaimed(objects[a].bones, objects'[a].bones,
                                 ProposalOf(inspected.value, last'.args[2]), last')]_vars

IsExport == last.cmd = "export_ue5_ready_fbx"

\* the export operation was called: it completed or its fault was wrapped
ExportTriggered ==
    /\ ~last.result.raised
    /\ \/ HasStatus(last, "success")
       \/ /\ "error" \in DOMAIN last.result.value
          /\ last.result.value.error \notin {NO_FILEPATH, NO_CANDIDATE}

\* C18: export_ue5_ready_fbx returns a value in every case and never raises:
\* an error mapping when filepath is empty, when armature and mesh are not
\* both resolved, or when the host export fails; a success mapping with the
\* given filepath otherwise; and after an export that was triggered an
\* armature and a mesh are selected
C18_ExportReturnsAValue ==
    IsExport
        => /\ ~last.result.raised
           /\ last.args[1] = <<>> => last.result.value = [error |-> NO_FILEPATH]
           /\ HasStatus(last, "success") => last.result.value.filepath = last.args[1]
           /\ ExportTriggered
                  => \E a, m \in 1..Len(objects) :
                         /\ objects[a].type = "ARMATURE" /\ objects[m].type = "MESH"
                         /\ selected = {objects[a].name, objects[m].name}

\* the command ended with an error: a fault, or a mapping with an error
EndedWithError(call) ==
    call.result.raised \/ "error" \in DOMAIN call.result.value

\* C20: a rigging command that ends with an error (a returned error value or
\* a fault) leaves every object as it was before the command: its bones, its
\* pose, its modifiers, its vertex groups and its parent
C20_FailureLeavesObjectsAlone ==
    [][(last'.cmd # "none" /\ EndedWithError(last')) => objects' = objects]_vars

IsExecute == last.cmd = "execute_command"

ResponsesPaired(connection) ==
    /\ Len(connection.responses) <= Len(connection.sent)
    /\ \A k \in 1..Len(connection.responses) :
           connection.responses[k].request = connection.sent[k]

\* C22: on a connection that stays open, every complete request the client
\* has sent is eventually answered by exactly one response on that connection,
\* also when its text arrives over several reads or when the client sends a
\* second request before the first response: the responses never outnumber
\* the requests, the k-th response answers the k-th request, and the k-th
\* request sent leads to a k-th response
C22_EveryRequestAnswered ==
    /\ [](\A c \in Clients : ResponsesPaired(conn[c]))
    /\ \A c \in Clients : \A k \in 1..MaxRequests :
           (Len(conn[c].sent) >= k) ~> (Len(conn[c].responses) >= k)

\* C22, for requests sent one at a time: a client that has sent one request
\* gets its response
C22_FirstRequestAnswered ==
    \A c \in Clients :
        (Len(conn[c].sent) = 1) ~> (Len(conn[c].responses) >= 1 \/ Len(conn[c].sent) > 1)

\* chain runs from a child of the hand to a tip: each bone after the first is
\* a child of the bone just before it
IsRootToTip(bones, chain, hand) ==
    /\ chain # <<>>
    /\ bones[BoneGet(bones, chain[1])].parent = hand
    /\ \A k \in 2..Len(chain) :
           bones[BoneGet(bones, chain[k])].parent = BoneGet(bones, chain[k - 1])

\* C23: every finger chain an inspection returns is a root-to-tip sequence:
\* its first bone is a direct child of the hand bone and each later bone is a
\* child of the bone immediately before it
C23_ChainsAreRootToTip ==
    (IsInspect /\ Succeeded /\ Returned.armature_name # None) =>
        \A bones \in {ArmatureBones(Returned)} :
            \A side \in {"left", "right"} :
                \A f \in 1..Len(Returned.hands[side].fingers) :
                    IsRootToTip(bones, Returned.hands[side].fingers[f][2],
                                BoneGet(bones, Returned.hands[side].hand_bone))

\* the limbs claimed for one side, as <<bone, parent>> pairs
ClaimedLimbs(side) ==
    {<<<<"u","p","p","e","r","_","a","r","m",".",side>>, <<"s","p","i","n","e">> >>,
     <<<<"l","o","w","e","r","_","a","r","m",".",side>>, <<"u","p","p","e","r","_","a","r","m",".",side>> >>,
     <<<<"h","a","n","d",".",side>>, <<"l","o","w","e","r","_","a","r","m",".",side>> >>,
     <<<<"t","h","i","g","h",".",side>>, <<"h","i","p","s">> >>,
     <<<<"c","a","l","f",".",side>>, <<"t","h","i","g","h",".",side>> >>,
     <<<<"f","o","o","t",".",side>>, <<"c","a","l","f",".",side>> >>}

\* the tree claimed for the fallback skeleton; the root has parent None
ClaimedTree ==
    {<<<<"h","i","p","s">>, None>>,
     <<<<"s","p","i","n","e">>, <<"h","i","p","s">> >>,
     <<<<"n","e","c","k">>, <<"s","p","i","n","e">> >>,
     <<<<"h","e","a","d">>, <<"n","e","c","k">> >>}
    \cup ClaimedLimbs("l") \cup ClaimedLimbs("r")

\* the bones of an armature as <<bone, parent>> pairs of names
TreeOf(bones) ==
    {<<bones[i].name,
       IF bones[i].parent = 0 THEN None ELSE bones[bones[i].parent].name>> :
        i \in 1..Len(bones)}

\* the object a successful fallback added is an armature with the claimed
\* tree, reported and classified as claimed
SynthesizedAsClaimed(objs, call) ==
    /\ objs[Len(objs)].type = "ARMATURE"
    /\ objs[Len(objs)].name = call.result.value.armature_name
    /\ Len(objs[Len(objs)].bones) = 16
    /\ TreeOf(objs[Len(objs)].bones) = ClaimedTree
    /\ call.result.value.used_auto_rig_pro = FALSE
    /\ call.result.value.bone_count = 16
    /\ DetectRigType(objs, Len(objs)) = Ret("generic_humanoid")

\* C24: a successful fallback synthesis adds one armature with exactly 16
\* bones in one tree rooted at hips (spine under hips, neck under spine, head
\* under neck, the arms under spine, the legs under hips), reports status
\* success, used_auto_rig_pro false and bone_count 16, and detect_rig_type
\* tags the armature generic_humanoid
C24_FallbackBuildsTheSkeleton ==
    [][(last'.cmd = "auto_rig_meshy_character" /\ HasStatus(last', "success"))
           => /\ Len(objects') = Len(objects) + 1
              /\ \A i \in 1..Len(objects) : objects'[i].type = objects[i].type
              /\ SynthesizedAsClaimed(objects', last')]_vars

\* a fallback synthesis has succeeded for Body
C24_Witness ==
    /\ IsAutoRig /\ HasStatus(last, "success")
    /\ last.result.value.armature_name = Body \o RIG_SUFFIX
    /\ objects[Get(objects, Body)].parent = Body \o RIG_SUFFIX

IsArp == last.cmd = "arp_add_or_fix_finger_rig"

\* the fallback of the last call completed the left hand of the rig
\* synthesized for Body: its first result is the success of
\* ensure_finger_chains with every finger created
CreatedLeftFingers ==
    /\ IsArp /\ HasStatus(last, "success_fallback")
    /\ last.args[3] = <<"L">>
    /\ Get(objects, Body \o RIG_SUFFIX) # 0
    /\ last.result.value.fallback_results[1].status = "success"
    /\ last.result.value.fallback_results[1].armature_name = Body \o RIG_SUFFIX
    /\ \A k \in 1..Len(FINGERS) :
           DictGet(last.result.value.fallback_results[1].finger_status, FINGERS[k])
               = "created"

\* an inspection that resolves the left hand and lists every finger under it
ListsLeftFingers(inspected) ==
    /\ ~inspected.raised
    /\ "error" \notin DOMAIN inspected.value
    /\ inspected.value.hands.left.hand_bone = <<"h","a","n","d",".","l">>
    /\ DictKeys(inspected.value.hands.left.fingers) = Range(FINGERS)

\* C25: once auto_rig has synthesized the fallback skeleton for a mesh and
\* ensure_finger_chains has reported created for the fingers of side L on it,
\* an inspection of the mesh resolves the left hand bone and lists the new
\* finger bones under it, and auto_weight_fingers_only for side L runs
\* instead of reporting skipped
C25_CommandsCompose ==
    CreatedLeftFingers
        => /\ ListsLeftFingers(InspectHumanoidRig(objects, Body, None))
           /\ Len(last.result.value.fallback_results) = 2
           /\ last.result.value.fallback_results[2].status # "skipped"

\* the finger labels an inspection lists under the hand of a side, L or R
ReportedFingers(inspection, side) ==
    IF Lower(side) = <<"l">> THEN DictKeys(inspection.hands.left.fingers)
    ELSE DictKeys(inspection.hands.right.fingers)

\* C26: every requested finger label that the inspection of the armature
\* lists under the hand of the requested side is reported existed by
\* ensure_finger_chains, and the call adds no bone whose name starts with
\* that label
C26_CompleterAgreesWithNormalizer ==
    [][last'.cmd = "ensure_finger_chains_for_hand" =>
        LET insp == InspectHumanoidRig(objects, last'.args[2], last'.args[1])
        IN  (~insp.raised /\ "error" \notin DOMAIN insp.value
             /\ insp.value.armature_name # None) =>
                LET a == Get(objects, insp.value.armature_name)
                IN  \A k \in 1..Len(Requested(last')) :
                        Requested(last')[k] \in ReportedFingers(insp.value, last'.args[3])
                            => /\ HasStatus(last', "success")
                               /\ DictGet(last'.result.value.finger_status,
                                          Requested(last')[k]) = "existed"
                               /\ \A j \in (Len(objects[a].bones) + 1)..Len(objects'[a].bones) :
                                      ~StartsWith(Lower(objects'[a].bones[j].name),
                                                  Requested(last')[k])
    ]_vars

\* a name was supplied and no object of the scene has it
Absent(objs, name) == name # None /\ Get(objs, name) = 0

\* C27: export_ue5_ready_fbx given an armature_name and a mesh_name of which
\* one names no object returns an error and leaves the selection, the active object,
\* the mode and every object as they were, instead of exporting the objects
\* picked by the candidate selector; and an export that was triggered has
\* selected every object whose name was given and resolved
C27_ActsOnlyOnNamedObjects ==
    [][(last'.cmd = "export_ue5_ready_fbx"
        /\ last'.args[2] # None /\ last'.args[3] # None) =>
        /\ (Absent(objects, last'.args[2]) \/ Absent(objects, last'.args[3]))
               => /\ ~last'.result.raised
                  /\ "error" \in DOMAIN last'.result.value
                  /\ objects' = objects
                  /\ selected' = selected
                  /\ active' = active
                  /\ mode' = mode
        /\ (~last'.result.raised /\ HasStatus(last', "success"))
               => \A k \in {2, 3} :
                      (last'.args[k] # None /\ Get(objects, last'.args[k]) # 0)
                          => last'.args[k] \in selected'
    ]_vars

====
